---- MODULE Spec2Model ----
(***************************************************************************)
(* Model of the calibration engine of wirc_drp:                            *)
(*   wirc_drp/wirc_object.py      wirc_data (calibrate, ...)               *)
(*   wirc_drp/utils/calibration.py masterDark, masterFlat, calibrate,      *)
(*                                 cleanBadPix                             *)
(*                                                                         *)
(* Pixel values are IEEE doubles.  A value is a pair <<n, d>>: for d > 0   *)
(* the rational n/d in lowest terms, and for d = 0 one of <<0,0>> (NaN),   *)
(* <<1,0>> (+inf), <<-1,0>> (-inf).  Arithmetic is exact on the finite     *)
(* values and follows IEEE 754 on the others (rounding and the sign of     *)
(* zero are not modelled).                                                 *)
(*                                                                         *)
(* The detector is one row of NPix pixels.  On a one-row image the 5x5     *)
(* window of scipy's median_filter (boundary mode 'reflect') holds each of *)
(* the five columns of the window five times, so that its median is the    *)
(* median of the five columns.                                             *)
(***************************************************************************)
EXTENDS Integers, Sequences, FiniteSets, TLC

\* ------------------------------------------------------------------ bounds
NPix == 3          \* pixels of the detector row
MaxCalls == 2      \* calls of wirc_data.calibrate on one object

Pix == 1..NPix

\* ------------------------------------------------ IEEE values <<n, d>>
NaN == <<0, 0>>
PInf == <<1, 0>>
NInf == <<-1, 0>>
Zero == <<0, 1>>
One == <<1, 1>>
Num(i) == <<i, 1>>
Frac(n, d) == <<n, d>>

Abs(i) == IF i < 0 THEN -i ELSE i
Sgn(i) == IF i < 0 THEN -1 ELSE IF i > 0 THEN 1 ELSE 0

RECURSIVE GCD(_, _)
GCD(a, b) == IF b = 0 THEN a ELSE GCD(b, a % b)

\* n/d in lowest terms with a positive denominator; n/0 is +-inf or NaN
Norm(n, d) ==
    IF d = 0 THEN <<Sgn(n), 0>>
    ELSE LET g == GCD(Abs(n), Abs(d))
         IN  <<(Sgn(d) * n) \div g, Abs(d) \div g>>

IsNaN(a) == a = NaN
IsInf(a) == a[2] = 0 /\ a[1] # 0
IsFinite(a) == a[2] > 0

Neg(a) == <<-a[1], a[2]>>

Add(a, b) ==
    IF IsNaN(a) \/ IsNaN(b) THEN NaN
    ELSE IF IsInf(a) THEN (IF IsInf(b) /\ b # a THEN NaN ELSE a)
    ELSE IF IsInf(b) THEN b
    ELSE Norm(a[1] * b[2] + b[1] * a[2], a[2] * b[2])

Sub(a, b) == Add(a, Neg(b))

\* inf * 0 = NaN, NaN * x = NaN fall out of Norm(_, 0)
Mul(a, b) == Norm(a[1] * b[1], a[2] * b[2])

\* numpy float division: x/0 = +-inf, 0/0 = NaN, x/inf = 0
Div(a, b) == Mul(a, Norm(b[2], b[1]))

\* IEEE comparisons: every comparison with NaN is false
Less(a, b) ==
    IF IsNaN(a) \/ IsNaN(b) THEN FALSE
    ELSE IF IsInf(a) /\ IsInf(b) THEN a[1] < b[1]
    ELSE IF IsInf(a) THEN a[1] < 0
    ELSE IF IsInf(b) THEN b[1] > 0
    ELSE a[1] * b[2] < b[1] * a[2]

Leq(a, b) == ~IsNaN(a) /\ ~IsNaN(b) /\ (a = b \/ Less(a, b))

\* ------------------------------------------------------------- medians
\* the element of rank k (1 = smallest) of a sequence without NaN
Ranked(s, k) ==
    LET i == CHOOSE j \in 1..Len(s) :
                 /\ Cardinality({m \in 1..Len(s) : Less(s[m], s[j])}) < k
                 /\ k <= Cardinality({m \in 1..Len(s) : Leq(s[m], s[j])})
    IN  s[i]

\* median of a sequence without NaN: the middle element, or the mean of the
\* two middle elements
MedianOf(s) ==
    LET n == Len(s)
    IN  IF n = 0 THEN NaN
        ELSE IF n % 2 = 1 THEN Ranked(s, (n + 1) \div 2)
        ELSE Div(Add(Ranked(s, n \div 2), Ranked(s, n \div 2 + 1)), Num(2))

RECURSIVE DropNaN(_)
DropNaN(s) ==
    IF s = <<>> THEN <<>>
    ELSE IF IsNaN(Head(s)) THEN DropNaN(Tail(s))
    ELSE <<Head(s)>> \o DropNaN(Tail(s))

HasNaN(s) == \E i \in 1..Len(s) : IsNaN(s[i])

\* np.median: NaN as soon as one element is NaN
Median(s) == IF HasNaN(s) THEN NaN ELSE MedianOf(s)

\* np.nanmedian: the median of the elements that are not NaN
NanMedian(s) == MedianOf(DropNaN(s))

\* the pixels of an image in row order
Flatten(img) == [i \in 1..NPix |-> img[i]]


\* ------------------------------------------------------ files and headers
\* A file name is <<kind, i, suffix>>, standing for the path
\* kind + i + suffix + ".fits"; Python's None, and a header key that is not
\* set, is the empty tuple.
None == <<>>
Absent == <<>>

RAW_FILE == <<"raw", 1, "">>
DARK_FILE == <<"dark", 1, "_master_dark">>
FLAT_FILE == <<"flat", 1, "_master_flat">>
BKG_FILE == <<"bkg", 1, "">>
BP_FILE == <<"flat", 1, "_bp_map">>

VARIABLES
    disk,          \* the FITS files: file name -> [data, header]
    full_image,    \* wirc_data.full_image
    header,        \* wirc_data.header, with its ordered HISTORY cards
    calibrated,    \* wirc_data.calibrated
    bkg_subbed,    \* wirc_data.bkg_subbed
    dark_fn,       \* wirc_data.dark_fn
    flat_fn,       \* wirc_data.flat_fn
    bkg_fn,        \* wirc_data.bkg_fn
    bp_fn,         \* wirc_data.bp_fn
    self_n_sources, \* wirc_data.n_sources
    source_list,   \* wirc_data.source_list: the wircpol_source objects
    ncalls,        \* calls made so far (calibrate on the object, or masterFlat)
    args,          \* the arguments of the last call
    outcome,       \* how the last call ended
    factor,        \* the local `factor` of the last call (None: not bound)
    nanmask,       \* the local `nanmask` of the last call (None: not bound)
    pos,           \* calibration.py: the function that is running and the
                   \* index of its loop (None: no function is running)
    locals         \* register_and_combine_raw: its locals spec_stack, offsets,
                   \* dx_list, dy_list (None: not running)

objVars == <<full_image, header, calibrated, bkg_subbed, dark_fn, flat_fn,
             bkg_fn, bp_fn, self_n_sources, source_list>>
callVars == <<ncalls, args, outcome, factor, nanmask>>
vars == <<disk, objVars, callVars, pos, locals>>

\* a primary header as the pipeline uses it
NewHeader(exptime) ==
    [EXPTIME |-> exptime, HISTORY |-> <<>>, RAW_FN |-> Absent,
     DARK_FN |-> Absent, FLAT_FN |-> Absent, BKG_FN |-> Absent,
     BP_FN |-> Absent, CLEAN_BP |-> Absent, PL_VERS |-> Absent]

File(data, exptime) == [data |-> data, header |-> NewHeader(exptime)]

\* header['HISTORY'] = text.format(fn): a new card after the existing ones
\* (the variant writes it as the value of a keyword, in place of the cards)
AddHistory_Overwrite(hdr, text, fn) ==
    [hdr EXCEPT !.HISTORY = <<<<text, fn>>>>]

AddHistory(hdr, text, fn) ==
    [hdr EXCEPT !.HISTORY = Append(@, <<text, fn>>)]

Const(v) == [p \in Pix |-> v]
Bool(b) == IF b THEN One ELSE Zero

\* ------------------------------------------- wirc_data.calibrate: steps
\* (variant: the calibrated flag is not consulted)
NeedsCalibration_Always(cal) == TRUE

\* line 102
NeedsCalibration(cal) == ~cal

\* lines 113-117 (and calibration.py 60-64, 246-250)
DarkFactor_Inverted(dark_exp_time, exptime) ==
    IF dark_exp_time # exptime THEN Div(dark_exp_time, exptime) ELSE One

DarkFactor(dark_exp_time, exptime) ==
    IF dark_exp_time # exptime THEN Div(exptime, dark_exp_time) ELSE One

\* line 120: image - factor*master_dark
SubtractDark(img, fac, master_dark) ==
    [p \in Pix |-> Sub(img[p], Mul(fac, master_dark[p]))]

\* line 136: image/master_flat
DivideFlat(img, master_flat) == [p \in Pix |-> Div(img[p], master_flat[p])]

\* lines 154-157: scale the background to the image median and subtract it
SubtractBackground(img, background) ==
    LET scale_bkg == Div(NanMedian(Flatten(img)), NanMedian(Flatten(background)))
    IN  [p \in Pix |-> Sub(img[p], Mul(scale_bkg, background[p]))]

\* line 168: np.array(bad_pixel_map, dtype=bool)
AsBool(bad_pixel_map) == [p \in Pix |-> bad_pixel_map[p] # Zero]

\* line 178: image * ~bad_pixel_map_bool
MaskBadPix(img, bad) == [p \in Pix |-> Mul(img[p], Bool(~bad[p]))]

\* scipy.ndimage.median_filter, boundary mode 'reflect'
Reflect(i) ==
    LET m == (i - 1 + 2 * NPix) % (2 * NPix)
    IN  IF m < NPix THEN m + 1 ELSE 2 * NPix - m

MEDIAN_BOX == 5

Window(img, p) ==
    [k \in 1..MEDIAN_BOX |-> img[Reflect(p + k - (MEDIAN_BOX + 1) \div 2)]]

\* The filter selects the middle element by comparisons.  Comparisons with
\* NaN do not order the window, and the element selected then depends on the
\* selection algorithm: any element of the window.
MedianChoices(img, p) ==
    LET w == Window(img, p)
    IN  IF HasNaN(w) THEN {w[k] : k \in 1..MEDIAN_BOX}
        ELSE {Ranked(w, (MEDIAN_BOX + 1) \div 2)}

MedianFilter(img) ==
    {f \in [Pix -> UNION {MedianChoices(img, p) : p \in Pix}] :
        \A p \in Pix : f[p] \in MedianChoices(img, p)}

\* calibration.py 311-324, given the median-filtered image
CleanBadPix(redux_science, bad_pixel_map, med_fil) ==
    LET bad == [p \in Pix |-> bad_pixel_map[p] \/ Leq(redux_science[p], Zero)]
    IN  [p \in Pix |-> Add(Mul(redux_science[p], Bool(~bad[p])),
                           Mul(med_fil[p], Bool(bad[p])))]

\* np.nan_to_num: NaN -> 0, +-inf -> the largest finite doubles
FloatMax == 1000000

\* (variant: NaN is left in place)
NanToNum_KeepNaN(v) ==
    IF v = PInf THEN Num(FloatMax)
    ELSE IF v = NInf THEN Num(-FloatMax)
    ELSE v

NanToNum(v) ==
    IF IsNaN(v) THEN Zero
    ELSE IF v = PInf THEN Num(FloatMax)
    ELSE IF v = NInf THEN Num(-FloatMax)
    ELSE v

ReplaceNans(img) == [p \in Pix |-> NanToNum(img[p])]
IsNanMask(img) == [p \in Pix |-> IsNaN(img[p])]

TXT_DARK == "Subtracting {} from each flat file"
TXT_FLAT == "Dividing each file by {}"
TXT_BKG == "Subtracted background frame {}"
TXT_CLEAN == "Cleaned all bad pixels found in {} using a median filter"
TXT_MASK == "Masking all bad pixels found in {}"

\* ----------------------------------------------------- wirc_data.calibrate
\* fits.open of a file that is not on the disk (lines 106, 131, 147, 166)
\* raises: the call ends with the image and the header as they are by then
CalibrateAborts(image, hdr, fac) ==
    /\ outcome' = "FileNotFoundError"
    /\ full_image' = image
    /\ header' = hdr
    /\ factor' = fac
    /\ nanmask' = None
    /\ UNCHANGED calibrated

\* calibrate(clean_bad_pix, replace_nans, mask_bad_pixels), wirc_object.py
\* 95-199.  The single call is one step; an exception ends it and leaves the
\* assignments made before it.
Calibrate(clean_bad_pix, replace_nans, mask_bad_pixels) ==
    /\ header # None
    /\ ncalls < MaxCalls
    /\ ncalls' = ncalls + 1
    /\ args' = [clean_bad_pix |-> clean_bad_pix, replace_nans |-> replace_nans,
                mask_bad_pixels |-> mask_bad_pixels]
    /\ UNCHANGED <<disk, bkg_subbed, dark_fn, flat_fn, bkg_fn, bp_fn,
                   self_n_sources, source_list, pos, locals>>
    /\ IF ~NeedsCalibration(calibrated)
       THEN /\ outcome' = "Data already calibrated"
            /\ factor' = None
            /\ nanmask' = None
            /\ UNCHANGED <<full_image, header, calibrated>>
       ELSE LET master_dark == disk[dark_fn].data
                fac == DarkFactor(disk[dark_fn].header.EXPTIME, header.EXPTIME)
                \* lines 104-127
                img1 == IF dark_fn # None
                        THEN SubtractDark(full_image, fac, master_dark)
                        ELSE full_image
                hdr1 == IF dark_fn # None
                        THEN [AddHistory(header, TXT_DARK, dark_fn)
                                 EXCEPT !.DARK_FN = dark_fn]
                        ELSE header
                \* lines 129-143
                img2 == IF flat_fn # None
                        THEN DivideFlat(img1, disk[flat_fn].data)
                        ELSE img1
                hdr2 == IF flat_fn # None
                        THEN [AddHistory(hdr1, TXT_FLAT, flat_fn)
                                 EXCEPT !.FLAT_FN = flat_fn]
                        ELSE hdr1
                \* lines 146-161
                background == IF dark_fn # None
                              THEN SubtractDark(disk[bkg_fn].data, fac, master_dark)
                              ELSE disk[bkg_fn].data
                img3 == IF bkg_fn # None
                        THEN SubtractBackground(img2, background)
                        ELSE img2
                hdr3 == IF bkg_fn # None
                        THEN [AddHistory(hdr2, TXT_BKG, bkg_fn)
                                 EXCEPT !.BKG_FN = bkg_fn]
                        ELSE hdr2
                bad_pixel_map_bool == AsBool(disk[bp_fn].data)
                \* lines 171-174
                hdr4 == IF bp_fn # None /\ clean_bad_pix
                        THEN [AddHistory(hdr3, TXT_CLEAN, bp_fn)
                                 EXCEPT !.CLEAN_BP = <<"True">>]
                        ELSE hdr3
                \* lines 177-182
                hdr5 == IF bp_fn # None /\ mask_bad_pixels
                        THEN [AddHistory(hdr4, TXT_MASK, bp_fn)
                                 EXCEPT !.BP_FN = bp_fn]
                        ELSE hdr4
                facOrNone == IF dark_fn # None THEN fac ELSE None
            IN  IF dark_fn # None /\ dark_fn \notin DOMAIN disk
                THEN CalibrateAborts(full_image, header, None)
                ELSE IF flat_fn # None /\ flat_fn \notin DOMAIN disk
                THEN CalibrateAborts(img1, hdr1, facOrNone)
                ELSE IF bkg_fn # None /\ bkg_fn \notin DOMAIN disk
                THEN CalibrateAborts(img2, hdr2, facOrNone)
                ELSE IF bp_fn # None /\ bp_fn \notin DOMAIN disk
                THEN CalibrateAborts(img3, hdr3, facOrNone)
                ELSE
                /\ factor' = facOrNone
                /\ IF bp_fn # None /\ ~clean_bad_pix /\ ~mask_bad_pixels
                   THEN \* line 184 reads `redux`, which no branch has bound
                        /\ outcome' = "UnboundLocalError"
                        /\ full_image' = img3
                        /\ header' = hdr3
                        /\ nanmask' = None
                        /\ UNCHANGED calibrated
                   ELSE \E image \in {img3} :
                        \E cleaned \in
                            (IF bp_fn # None /\ clean_bad_pix
                             THEN {CleanBadPix(image, bad_pixel_map_bool, med_fil) :
                                      med_fil \in MedianFilter(image)}
                             ELSE {image}) :
                          LET \* lines 164-184
                              img4 == IF bp_fn = None THEN image
                                      ELSE IF mask_bad_pixels
                                      THEN MaskBadPix(image, bad_pixel_map_bool)
                                      ELSE cleaned
                          IN  \* lines 191-196
                              /\ full_image' = IF replace_nans THEN ReplaceNans(img4)
                                               ELSE img4
                              /\ nanmask' = IF replace_nans THEN IsNanMask(img4)
                                            ELSE None
                              /\ header' = hdr5
                              /\ calibrated' = TRUE
                              /\ outcome' = "ok"

\* ------------------------------------------------------- the files on disk
\* Raw science frames: pixel p holds p + 1, and at most one pixel is NaN
RawImages == {[p \in Pix |-> IF p = q THEN NaN ELSE Num(p + 1)] : q \in 0..NPix}

SCI_EXPTIME == Num(2)
DarkExptimes == {Num(1), Num(2)}

\* a calibration file (name, content), or none
NoFile == [fn |-> None, file |-> None]
DarkOptions == {NoFile} \cup
    {[fn |-> DARK_FILE, file |-> File(Const(Num(2)), e)] : e \in DarkExptimes}
EvenFlat == [fn |-> FLAT_FILE, file |-> File(Const(Num(2)), Zero)]
FlatOptions == {NoFile, EvenFlat} \cup
    {[fn |-> FLAT_FILE,
      file |-> File([p \in Pix |-> IF p = 1 THEN Zero ELSE Num(2)], Zero)]}
BkgOptions == {NoFile, [fn |-> BKG_FILE, file |-> File(Const(One), SCI_EXPTIME)]}
BpOptions == {NoFile} \cup
    {[fn |-> BP_FILE, file |-> File(m, Zero)] :
        m \in {Const(Zero)} \cup
              {[p \in Pix |-> IF p = 1 THEN Num(v) ELSE Zero] : v \in {1, 3}} \cup
              {[p \in Pix |-> IF p = NPix THEN Num(2) ELSE Zero]}}

\* the disk that holds the given files
Disk(files) ==
    [fn \in {o.fn : o \in files} \ {None} |->
        (CHOOSE o \in files : o.fn = fn).file]

\* wirc_data(raw_filename, dark_fn, flat_fn, bp_fn, bkg_fn), lines 52-87
Init ==
    \E raw \in RawImages, d \in DarkOptions, f \in FlatOptions,
       b \in BkgOptions, m \in BpOptions :
        /\ disk = Disk({[fn |-> RAW_FILE, file |-> File(raw, SCI_EXPTIME)],
                        d, f, b, m})
        /\ full_image = raw
        /\ header = [NewHeader(SCI_EXPTIME) EXCEPT !.RAW_FN = RAW_FILE]
        /\ calibrated = FALSE
        /\ bkg_subbed = FALSE
        /\ dark_fn = d.fn
        /\ flat_fn = f.fn
        /\ bkg_fn = b.fn
        /\ bp_fn = m.fn
        /\ self_n_sources = 0
        /\ source_list = <<>>
        /\ ncalls = 0
        /\ args = None
        /\ outcome = "constructed"
        /\ factor = None
        /\ nanmask = None
        /\ locals = None
        /\ pos = None

Next ==
    \E clean_bad_pix \in BOOLEAN, replace_nans \in BOOLEAN,
       mask_bad_pixels \in BOOLEAN :
        Calibrate(clean_bad_pix, replace_nans, mask_bad_pixels)

Spec == Init /\ [][Next]_vars

\* ------------------------------------------------- calibration.calibrate
MaxSci == 2        \* science frames in the list given to calibrate

TXT_VERS == "version.get_version()"

\* fname.split('.')[0] + "_calib.fits" (line 304)
CalibName(fname) == <<fname[1], fname[2], "_calib">>

\* the object is not in use while the functions of calibration.py run
NoObject ==
    /\ full_image = None
    /\ header = None
    /\ calibrated = FALSE
    /\ bkg_subbed = FALSE
    /\ dark_fn = None
    /\ flat_fn = None
    /\ bkg_fn = None
    /\ bp_fn = None
    /\ self_n_sources = 0
    /\ source_list = <<>>

\* calibrate(science_list_fname, master_flat_fname, master_dark_fname,
\* bp_map_fname, mask_bad_pixels, clean_Bad_Pix, replace_nans,
\* background_fname): lines 209-235, the files are opened
CalibrateList(a) ==
    /\ pos = None
    /\ outcome = "idle"
    /\ a.science_list # <<>>
    /\ {a.master_dark_fname, a.master_flat_fname, a.bp_map_fname} \subseteq DOMAIN disk
    /\ a.background_fname # None => a.background_fname \in DOMAIN disk
    /\ \A i \in 1..Len(a.science_list) : a.science_list[i] \in DOMAIN disk
    /\ args' = a
    /\ pos' = <<"calibrate", 1>>
    /\ outcome' = "running"
    /\ UNCHANGED <<disk, objVars, ncalls, factor, nanmask, locals>>

\* lines 253-258: dark, flat, the unconditional mask, the background
ReduceFrame(data, fac, master_dark, master_flat, bad_pixel_map_bool, bkg) ==
    LET redux0 == DivideFlat(SubtractDark(data, fac, master_dark), master_flat)
        redux1 == MaskBadPix(redux0, bad_pixel_map_bool)
    IN  IF bkg # None THEN [p \in Pix |-> Sub(redux1[p], bkg[p])] ELSE redux1

\* lines 284-294: the history cards of a calibrated file
CalibHistory(hdr, a) ==
    LET h1 == AddHistory(AddHistory(hdr, TXT_DARK, a.master_dark_fname),
                         TXT_FLAT, a.master_flat_fname)
        h2 == IF a.background_fname # None
              THEN AddHistory(h1, TXT_BKG, a.background_fname) ELSE h1
        h3 == IF a.mask_bad_pixels
              THEN AddHistory(h2, TXT_MASK, a.bp_map_fname) ELSE h2
    IN  IF a.clean_Bad_Pix
        THEN AddHistory(h3, TXT_CLEAN, a.bp_map_fname) ELSE h3

\* one iteration of the loop over the science frames, lines 238-307
CalibrateFrame ==
    /\ pos # None
    /\ pos[1] = "calibrate"
    /\ pos[2] <= Len(args.science_list)
    /\ LET fname == args.science_list[pos[2]]
           hdu == disk[fname]
           fac == DarkFactor(disk[args.master_dark_fname].header.EXPTIME,
                             hdu.header.EXPTIME)
           bad_pixel_map_bool == AsBool(disk[args.bp_map_fname].data)
           redux2 == ReduceFrame(hdu.data, fac, disk[args.master_dark_fname].data,
                                 disk[args.master_flat_fname].data,
                                 bad_pixel_map_bool,
                                 IF args.background_fname # None
                                 THEN disk[args.background_fname].data ELSE None)
       IN  \E redux \in {redux2} :
           \E redux3 \in (IF args.clean_Bad_Pix
                          THEN {CleanBadPix(redux, bad_pixel_map_bool, med_fil) :
                                   med_fil \in MedianFilter(redux)}
                          ELSE {redux}) :
             LET redux4 == IF args.mask_bad_pixels
                           THEN MaskBadPix(redux3, bad_pixel_map_bool)
                           ELSE redux3
                 redux5 == IF args.replace_nans THEN ReplaceNans(redux4)
                           ELSE redux4
                 out == [data |-> redux5,
                         header |-> CalibHistory(
                             [hdu.header EXCEPT !.PL_VERS = TXT_VERS], args)]
             IN  /\ disk' = (CalibName(fname) :> out) @@ disk
                 /\ factor' = fac
                 /\ nanmask' = IF args.replace_nans THEN IsNanMask(redux4)
                               ELSE nanmask
    /\ pos' = IF pos[2] = Len(args.science_list) THEN None
              ELSE <<"calibrate", pos[2] + 1>>
    /\ outcome' = IF pos[2] = Len(args.science_list) THEN "ok" ELSE outcome
    /\ UNCHANGED <<objVars, ncalls, args, locals>>

\* science frame i of a list: the first frame is any raw image, the later
\* ones are fixed; the exposure times alternate; the master flat is even
SCI_FILE(i) == <<"sci", i, "">>
SciFrame(i, raw) ==
    [fn |-> SCI_FILE(i),
     file |-> File(IF i = 1 THEN raw ELSE [p \in Pix |-> Num(p + i)],
                   IF i % 2 = 1 THEN SCI_EXPTIME ELSE Num(4))]

InitCal ==
    \E raw \in RawImages, n \in 1..MaxSci, d \in DarkOptions \ {NoFile},
       f \in {EvenFlat}, b \in BkgOptions \ {NoFile},
       m \in BpOptions \ {NoFile} :
        /\ disk = Disk({SciFrame(i, raw) : i \in 1..n} \cup {d, f, b, m})
        /\ NoObject
        /\ ncalls = 0
        /\ args = None
        /\ outcome = "idle"
        /\ factor = None
        /\ nanmask = None
        /\ locals = None
        /\ pos = None

\* the calls made: every science frame on the disk, in order
CalArgs ==
    [science_list : {[i \in 1..Cardinality({fn \in DOMAIN disk : fn[1] = "sci"})
                        |-> SCI_FILE(i)]},
     master_flat_fname : {FLAT_FILE}, master_dark_fname : {DARK_FILE},
     bp_map_fname : {BP_FILE}, mask_bad_pixels : BOOLEAN,
     clean_Bad_Pix : BOOLEAN, replace_nans : BOOLEAN,
     background_fname : {None, BKG_FILE}]

NextCal ==
    \/ \E a \in CalArgs : CalibrateList(a)
    \/ CalibrateFrame

SpecCal == InitCal /\ [][NextCal]_vars

\* ------------------------------------------------ masterDark, masterFlat
MaxFrames == 3     \* frames in a list of darks or flats
MaxPasses == 2     \* calls of masterFlat

\* astropy.stats.sigma_clip(data, sigma): values that are not finite are
\* masked; then, at most SIGMA_CLIP_ITERS times, the values further than sigma
\* standard deviations from the median of the unmasked values are masked
SIGMA_CLIP_ITERS == 5

RECURSIVE Pick(_, _, _)
\* the values of the pixels p..NPix that the mask does not hide, in order
Pick(img, mask, p) ==
    IF p > NPix THEN <<>>
    ELSE (IF mask[p] THEN <<>> ELSE <<img[p]>>) \o Pick(img, mask, p + 1)

RECURSIVE SumOf(_)
SumOf(s) == IF s = <<>> THEN Zero ELSE Add(Head(s), SumOf(Tail(s)))

Sq(v) == Mul(v, v)

\* np.std(...)**2: the mean squared deviation from the mean
Variance(s) ==
    LET mean == Div(SumOf(s), Num(Len(s)))
    IN  Div(SumOf([i \in 1..Len(s) |-> Sq(Sub(s[i], mean))]), Num(Len(s)))

\* x < median - sigma*std or x > median + sigma*std
Clipped(x, med, var, sigma) == Less(Mul(Sq(sigma), var), Sq(Sub(x, med)))

\* one pass: the mask after the values outside the limits are added to it
\* (the bound variables c and m hold the centre, the variance and the new
\* mask as values, which are then computed once)
ClipOnce(img, mask, sigma) ==
    LET vals == Pick(img, mask, 1)
    IN  IF vals = <<>> THEN mask
        ELSE CHOOSE m \in
               {[p \in Pix |-> mask[p] \/ Clipped(img[p], c[1], c[2], sigma)] :
                   c \in {<<MedianOf(vals), Variance(vals)>>}} : TRUE

RECURSIVE ClipIter(_, _, _, _)
ClipIter(img, mask, sigma, iters) ==
    IF iters = 0 THEN mask
    ELSE CHOOSE r \in
           {IF clipped = mask THEN mask
            ELSE ClipIter(img, clipped, sigma, iters - 1) :
               clipped \in {ClipOnce(img, mask, sigma)}} : TRUE

\* the mask of sigma_clip(img, sigma = sigma)
SigmaClip(img, sigma) ==
    ClipIter(img, [p \in Pix |-> ~IsFinite(img[p])], sigma, SIGMA_CLIP_ITERS)

\* np.median(foo, axis = 2): the median of each pixel over the frames
MedianCombine(frames) ==
    [p \in Pix |-> Median([i \in 1..Len(frames) |-> frames[i][p]])]

\* (variant: a mask overwrites the entries it flags)
Accumulate_Overwrite(map, mask, value) ==
    [p \in Pix |-> IF mask[p] THEN Num(value) ELSE map[p]]

\* the numeric bad pixel map: hdu[0].data += np.array(mask, dtype=float)
\* (line 113, value 1), and np.array(bad_px, dtype=float)*2 on a new map
\* (line 177), np.array(mask, dtype=float) on a new map (line 118)
Accumulate(map, mask, value) ==
    [p \in Pix |-> Add(map[p], Mul(Num(value), Bool(mask[p])))]

FLAT_VALUE == 1    \* line 113, 118
HOT_VALUE == 2     \* line 177

TXT_HASH == "############################"
TXT_MDARK == "Created master dark by median combining the following frames"
TXT_NAME == "{}"
TXT_HOTMAP == "Created hot pixel map by sigma clipping {}"
TXT_CUTOFF == "Bad pixel cutoff of {}sigma"
TXT_TWO == "A pixel value of 2 indicates a hot pixel"
TXT_MFLAT == "Created master flat by median combining the following:"
TXT_NORM == "Normalized to the median of the master flat"
TXT_KLIP == "Performed bad pixel sigma klipping with cutoff of {}sigma"
TXT_BPMAP == "Created badpixel map by sigma klipping {}"
TXT_ONE_BAD == "A pixel value of 1 indicates a bad pixel"

RECURSIVE AddNames(_, _)
\* one history card for each file name of a list
AddNames(hdr, list) ==
    IF list = <<>> THEN hdr
    ELSE AddNames(AddHistory(hdr, TXT_NAME, Head(list)), Tail(list))

Last(list) == list[Len(list)]
OutName(list, suffix) == <<Last(list)[1], Last(list)[2], suffix>>

\* dark_list[-1].rsplit('.',1)[0] + "_master_dark.fits", + "_bp_map.fits"
MasterDarkName(dark_list) == OutName(dark_list, "_master_dark")
BpMapName(list) == OutName(list, "_bp_map")
MasterFlatName(flat_list) == OutName(flat_list, "_master_flat")

\* lines 152-156: the sigma-clipped pixels and the pixels that are 0
HotPixels_ClipOnly(master_dark, sig_hot_pix) ==
    SigmaClip(master_dark, sig_hot_pix)

HotPixels(master_dark, sig_hot_pix) ==
    LET hot_px == SigmaClip(master_dark, sig_hot_pix)
    IN  [p \in Pix |-> hot_px[p] \/ master_dark[p] = Zero]

\* masterDark(dark_list, sig_hot_pix), lines 135-193
MasterDark(dark_list, sig_hot_pix) ==
    /\ pos = None
    /\ dark_list # <<>>
    /\ \A i \in 1..Len(dark_list) : dark_list[i] \in DOMAIN disk
    /\ MasterDarkName(dark_list) \notin DOMAIN disk
    /\ \E master_dark \in
           {MedianCombine([i \in 1..Len(dark_list) |-> disk[dark_list[i]].data])} :
       LET bad_px == HotPixels(master_dark, sig_hot_pix)
           hdu == disk[Last(dark_list)]
           \* lines 162-168
           hdr1 == AddHistory(
                     AddNames(
                       AddHistory(
                         AddHistory([hdu.header EXCEPT !.PL_VERS = TXT_VERS],
                                    TXT_HASH, None),
                         TXT_MDARK, None),
                       dark_list),
                     TXT_HASH, None)
           \* lines 181-185
           hdr2 == AddHistory(AddHistory(AddHistory(AddHistory(AddHistory(hdr1,
                     TXT_HASH, None),
                     TXT_HOTMAP, MasterDarkName(dark_list)),
                     TXT_CUTOFF, sig_hot_pix),
                     TXT_TWO, None),
                     TXT_HASH, None)
       IN  disk' = (MasterDarkName(dark_list) :>
                        [data |-> master_dark, header |-> hdr1])
                   @@ (BpMapName(dark_list) :>
                        [data |-> Accumulate(Const(Zero), bad_px, HOT_VALUE),
                         header |-> hdr2])
                   @@ disk
    /\ args' = [dark_list |-> dark_list, sig_hot_pix |-> sig_hot_pix]
    /\ outcome' = "ok"
    /\ UNCHANGED <<objVars, ncalls, factor, nanmask, pos, locals>>

\* np.nanmedian(d_sub) of a dark-subtracted flat, and d_sub divided by it
NormalizeFrame(d_sub) ==
    CHOOSE f \in {[p \in Pix |-> Div(d_sub[p], med)] :
                     med \in {NanMedian(Flatten(d_sub))}} : TRUE

\* lines 58, 67-79: the first flat enters as it was read (lines 55-58), the
\* others dark-subtracted and divided by their median; then the median of
\* each pixel over the frames
FlatCombine(flat_list, fac, master_dark) ==
    MedianCombine([i \in 1..Len(flat_list) |->
        IF i = 1 THEN disk[flat_list[1]].data
        ELSE NormalizeFrame(SubtractDark(disk[flat_list[i]].data, fac, master_dark))])

\* masterFlat(flat_list, master_dark_fname, normalize, sig_bad_pix,
\* hotp_map_fname), lines 25-133
MasterFlat(flat_list, master_dark_fname, normalize, sig_bad_pix, hotp_map_fname) ==
    /\ pos = None
    /\ ncalls < MaxPasses
    /\ flat_list # <<>>
    /\ \A i \in 1..Len(flat_list) : flat_list[i] \in DOMAIN disk
    /\ master_dark_fname \in DOMAIN disk
    /\ hotp_map_fname # None => hotp_map_fname \in DOMAIN disk
    /\ ncalls' = ncalls + 1
    /\ args' = [flat_list |-> flat_list, master_dark_fname |-> master_dark_fname,
                normalize |-> normalize, sig_bad_pix |-> sig_bad_pix,
                hotp_map_fname |-> hotp_map_fname]
    /\ UNCHANGED <<objVars, nanmask, pos, locals>>
    /\ \E fac \in {DarkFactor(disk[master_dark_fname].header.EXPTIME,
                              disk[flat_list[1]].header.EXPTIME)} :
       \E flat \in {FlatCombine(flat_list, fac, disk[master_dark_fname].data)} :
       \E bad_px \in {SigmaClip(flat, sig_bad_pix)} :
       LET \* line 86: the median of the pixels that were not clipped
           norm == NanMedian(Pick(flat, bad_px, 1))
           norm_flat == [p \in Pix |-> Div(flat[p], norm)]
           hdu == disk[Last(flat_list)]
           \* lines 93-101
           hdr1 == AddHistory(AddHistory(AddHistory(
                     AddNames(
                       AddHistory(
                         AddHistory([hdu.header EXCEPT !.PL_VERS = TXT_VERS],
                                    TXT_HASH, None),
                         TXT_MFLAT, None),
                       flat_list),
                     TXT_NORM, None),
                     TXT_KLIP, sig_bad_pix),
                     TXT_HASH, None)
           \* lines 110-120: the map that is added to, and its header
           old == IF hotp_map_fname # None THEN disk[hotp_map_fname]
                  ELSE [data |-> Const(Zero), header |-> hdr1]
           \* lines 123-127
           hdr2 == AddHistory(AddHistory(AddHistory(AddHistory(AddHistory(
                     old.header,
                     TXT_HASH, None),
                     TXT_BPMAP, MasterFlatName(flat_list)),
                     TXT_CUTOFF, sig_bad_pix),
                     TXT_ONE_BAD, None),
                     TXT_HASH, None)
       IN  /\ factor' = fac
           /\ IF normalize = "mode"
              THEN \* lines 73, 88: an array divided by the ModeResult pair
                   /\ outcome' = "ValueError"
                   /\ UNCHANGED disk
              ELSE IF Len(flat_list) = 1
              THEN \* line 90 reads `hdu`, which the loop never bound
                   /\ outcome' = "UnboundLocalError"
                   /\ UNCHANGED disk
              ELSE /\ outcome' = "ok"
                   /\ disk' = (BpMapName(flat_list) :>
                                 [data |-> Accumulate(old.data, bad_px, FLAT_VALUE),
                                  header |-> hdr2])
                              @@ (MasterFlatName(flat_list) :>
                                 [data |-> norm_flat, header |-> hdr1])
                              @@ disk

\* ------------------------------------------------ the raw darks and flats
DARK_N(i) == <<"dark", i, "">>
FLAT_N(i) == <<"flat", i, "">>
NameList(name(_), n) == [i \in 1..n |-> name(i)]

\* raw darks: 100, but pixel 1 may be dead (0) or hot (500) and the last
\* pixel may be hot
RawDarks ==
    {[p \in Pix |-> IF p = 1 THEN a ELSE IF p = NPix THEN b ELSE Num(100)] :
        a \in {Zero, Num(100), Num(500)}, b \in {Num(100), Num(500)}}
SigmaHot == {Num(1), Num(5)}
SigmaBad == {Num(1), Num(3)}

\* the darks of the scenario: five frames of 100 with pixel 1 at 0
ScenarioDarks == [i \in 1..5 |-> [p \in Pix |-> IF p = 1 THEN Zero ELSE Num(100)]]

DarkLists ==
    {ScenarioDarks} \cup UNION {[1..n -> RawDarks] : n \in 1..MaxFrames}

NoCall ==
    /\ ncalls = 0
    /\ args = None
    /\ outcome = "idle"
    /\ factor = None
    /\ nanmask = None
    /\ locals = None
    /\ pos = None

InitDark ==
    \E darks \in DarkLists :
        /\ disk = [fn \in {DARK_N(i) : i \in 1..Len(darks)} |->
                      File(darks[fn[2]], SCI_EXPTIME)]
        /\ NoObject
        /\ NoCall

\* the list of all the raw files of a kind that are on the disk
AllFiles(kind, name(_)) ==
    NameList(name, Cardinality({fn \in DOMAIN disk : fn[1] = kind /\ fn[3] = ""}))

NextDark ==
    \E sig_hot_pix \in SigmaHot : MasterDark(AllFiles("dark", DARK_N), sig_hot_pix)

SpecDark == InitDark /\ [][NextDark]_vars

\* one dark and a list of flats: the dark has a dead pixel or not, the flats
\* are even (10) or have a dim pixel 1
FewDarks == {Const(Num(2)), [p \in Pix |-> IF p = 1 THEN Zero ELSE Num(2)]}
RawFlats == {Const(Num(10)),
             [p \in Pix |-> IF p = 1 THEN Num(2) ELSE Num(10)]}
FlatExptimes == {Num(2), Num(4)}

InitMaster ==
    \E darks \in [1..1 -> FewDarks],
       flats \in UNION {[1..n -> RawFlats] : n \in 1..MaxFrames},
       e \in FlatExptimes :
        /\ disk = [fn \in {DARK_N(i) : i \in 1..Len(darks)}
                          \cup {FLAT_N(i) : i \in 1..Len(flats)} |->
                      IF fn[1] = "dark" THEN File(darks[fn[2]], SCI_EXPTIME)
                      ELSE File(flats[fn[2]], e)]
        /\ NoObject
        /\ NoCall

NextMaster ==
    \/ \E sig_hot_pix \in SigmaHot :
          MasterDark(AllFiles("dark", DARK_N), sig_hot_pix)
    \/ \E normalize \in {"median", "mode"}, sig_bad_pix \in SigmaBad,
          hotp_map_fname \in {None} \cup {fn \in DOMAIN disk : fn[3] = "_bp_map"} :
          MasterFlat(AllFiles("flat", FLAT_N),
                     MasterDarkName(AllFiles("dark", DARK_N)),
                     normalize, sig_bad_pix, hotp_map_fname)

SpecMaster == InitMaster /\ [][NextMaster]_vars

\* ---------------------------------------- the bad pixel map, accumulated
\* Two copies of one map, and two masks with their values: one copy takes the
\* masks in the order A, B and the other in the order B, A.
MAP_AB == <<"bp", 1, "_bp_map">>
MAP_BA == <<"bp", 2, "_bp_map">>

AccumulateNext(fn) ==
    /\ pos # None
    /\ pos[1] = "accumulate"
    /\ args[fn] # <<>>
    /\ disk' = [disk EXCEPT ![fn].data =
                   Accumulate(@, Head(args[fn]).mask, Head(args[fn]).value)]
    /\ args' = [args EXCEPT ![fn] = Tail(@)]
    /\ pos' = <<"accumulate", pos[2] + 1>>
    /\ UNCHANGED <<objVars, ncalls, outcome, factor, nanmask, locals>>

InitAcc ==
    \E map \in [Pix -> {Zero, Num(HOT_VALUE)}],
       A \in [mask : [Pix -> BOOLEAN], value : {FLAT_VALUE, HOT_VALUE}],
       B \in [mask : [Pix -> BOOLEAN], value : {FLAT_VALUE, HOT_VALUE}] :
        /\ disk = (MAP_AB :> File(map, Zero)) @@ (MAP_BA :> File(map, Zero))
        /\ NoObject
        /\ ncalls = 0
        /\ args = (MAP_AB :> <<A, B>>) @@ (MAP_BA :> <<B, A>>)
        /\ outcome = "idle"
        /\ factor = None
        /\ nanmask = None
        /\ locals = None
        /\ pos = <<"accumulate", 0>>

NextAcc == \E fn \in {MAP_AB, MAP_BA} : AccumulateNext(fn)

SpecAcc == InitAcc /\ [][NextAcc]_vars

\* ------------------------------------------------- every place a dark is used
\* a run is the life of one wirc_data object, or one call of
\* calibration.calibrate, or a master dark and the master flats made with it
InitAll == Init \/ InitCal \/ InitMaster
NextAll == Next \/ NextCal \/ NextMaster
SpecAll == InitAll /\ [][NextAll]_vars

\* ================================================== properties: wirc_data
StepTexts == {TXT_DARK, TXT_FLAT, TXT_BKG, TXT_CLEAN, TXT_MASK}

\* a call of calibrate is the step that counts it
IsCall == ncalls' = ncalls + 1

\* C1: calibrate on a frame whose calibrated flag is set changes nothing: the
\* pixel data, the header with its history, and the calibration-file fields
\* are the same after the call, so that calibrating twice is calibrating once.
C1_RecalibrateIsNoOp ==
    [][(calibrated /\ IsCall) =>
          /\ full_image' = full_image
          /\ header' = header
          /\ <<dark_fn, flat_fn, bkg_fn, bp_fn>>' = <<dark_fn, flat_fn, bkg_fn, bp_fn>>
          /\ calibrated'
          /\ outcome' = "Data already calibrated"]_vars

\* a second call on a frame that the first call calibrated with at least one
\* step applied
C1_Witness ==
    /\ ncalls = 2
    /\ outcome = "Data already calibrated"
    /\ Len(header.HISTORY) > 0
    /\ full_image # disk[RAW_FILE].data

\* the steps a call with arguments a applies to the frame
StepsApplied(a, nmask) ==
    {s \in {"dark", "flat", "bkg", "clean", "mask", "nan"} :
        \/ s = "dark" /\ dark_fn # None
        \/ s = "flat" /\ flat_fn # None
        \/ s = "bkg" /\ bkg_fn # None
        \/ s = "clean" /\ bp_fn # None /\ a.clean_bad_pix
        \/ s = "mask" /\ bp_fn # None /\ a.mask_bad_pixels
        \/ s = "nan" /\ a.replace_nans /\ \E p \in Pix : nmask[p]}

\* C2: every step that a completed call of calibrate applies (NaN replacement
\* counted when it replaced a pixel) appends one entry to the history, and
\* the dark, flat, background and mask steps record their file in the header.
C2_EveryStepLogged ==
    [][(IsCall /\ outcome' = "ok") =>
          /\ Len(header'.HISTORY) =
                Len(header.HISTORY) + Cardinality(StepsApplied(args', nanmask'))
          /\ dark_fn # None => header'.DARK_FN = dark_fn
          /\ flat_fn # None => header'.FLAT_FN = flat_fn
          /\ bkg_fn # None => header'.BKG_FN = bkg_fn
          /\ (bp_fn # None /\ args'.mask_bad_pixels) => header'.BP_FN = bp_fn]_vars

\* C3: a call on an uncalibrated frame with no master dark or no master flat
\* configured raises nothing and ends with the calibrated flag set.
C3_MissingDarkFlatNoError ==
    [][(IsCall /\ ~calibrated /\ (dark_fn = None \/ flat_fn = None)) =>
          (outcome' = "ok" /\ calibrated')]_vars

\* C7 (wirc_data.calibrate): a completed call that applied a master dark of
\* another exposure time leaves a history entry for the scaling, that is, an
\* entry other than the entries of the steps.
C7_ScalingLogged ==
    (outcome = "ok" /\ dark_fn # None
        /\ disk[dark_fn].header.EXPTIME # header.EXPTIME) =>
        \E i \in 1..Len(header.HISTORY) : header.HISTORY[i][1] \notin StepTexts

\* ==================================== properties: calibration.calibrate
\* the file a calibrated file was made from
SourceOf(fn) == <<fn[1], fn[2], "">>
CalibFiles == {fn \in DOMAIN disk : fn[3] = "_calib"}

\* the value of pixel p of a science frame after dark, flat and background,
\* before any bad pixel handling
Corrected(fn, p) ==
    LET src == disk[SourceOf(fn)]
        dark == disk[args.master_dark_fname]
        fac == DarkFactor(dark.header.EXPTIME, src.header.EXPTIME)
        v == Div(Sub(src.data[p], Mul(fac, dark.data[p])),
                 disk[args.master_flat_fname].data[p])
    IN  IF args.background_fname # None
        THEN Sub(v, disk[args.background_fname].data[p])
        ELSE v

\* C4: in a frame written by calibration.calibrate a flagged pixel (map value
\* 1, 2 or 3) is zero when mask_bad_pixels alone was requested, and when
\* neither mask_bad_pixels nor clean_Bad_Pix was requested every pixel,
\* flagged or not, keeps its corrected value: nothing is zeroed without the
\* mask mode.
C4_ZeroedIffMaskRequested ==
    \A fn \in CalibFiles : \A p \in Pix :
        LET v == Corrected(fn, p)
            flagged == disk[args.bp_map_fname].data[p] # Zero
        IN  /\ (args.mask_bad_pixels /\ ~args.clean_Bad_Pix /\ flagged
                   /\ IsFinite(v)) =>
                   disk[fn].data[p] = Zero
            /\ (~args.mask_bad_pixels /\ ~args.clean_Bad_Pix) =>
                   disk[fn].data[p] = IF args.replace_nans THEN NanToNum(v) ELSE v

\* ================================================ properties: the dark factor
\* factor * dark_exptime = target_exptime, and factor = 1 when they are equal
FactorIs(fac, dark_exptime, target_exptime) ==
    /\ Mul(fac, dark_exptime) = target_exptime
    /\ dark_exptime = target_exptime => fac = One

\* the science frame that calibration.calibrate processed last
LastFrame == IF pos = None THEN Last(args.science_list)
             ELSE args.science_list[pos[2] - 1]

\* C5: with replace_nans set, a frame that wirc_data.calibrate completed is
\* marked calibrated and holds no NaN (nor any other non-finite value), every
\* pixel that was NaN when the replacement step ran is 0, and the same holds
\* of the frames that calibration.calibrate has written: no later step puts
\* a NaN back.
C5_NoNaNAfterReplacement ==
    /\ (header # None /\ outcome = "ok" /\ args.replace_nans) =>
          /\ calibrated
          /\ \A p \in Pix : /\ IsFinite(full_image[p])
                            /\ nanmask[p] => full_image[p] = Zero
    /\ (header = None /\ "science_list" \in DOMAIN args /\ args.replace_nans) =>
          /\ \A fn \in CalibFiles : \A p \in Pix : IsFinite(disk[fn].data[p])
          /\ nanmask # None =>
                \A p \in Pix :
                    nanmask[p] => disk[CalibName(LastFrame)].data[p] = Zero

\* a completed call of wirc_data.calibrate that replaced a NaN and did not
\* start from one: the NaN arose in the pipeline
C5_Witness ==
    /\ header # None
    /\ outcome = "ok"
    /\ args.replace_nans
    /\ \E p \in Pix : nanmask[p] /\ ~IsNaN(disk[RAW_FILE].data[p])

\* C6: wherever a master dark is applied the factor is target_exptime /
\* dark_exptime, and 1 when the two are equal: in wirc_data.calibrate (with
\* the frame's EXPTIME), in calibration.calibrate (with the EXPTIME of the
\* science frame) and in masterFlat (with the EXPTIME of the first flat);
\* and the dark is subtracted multiplied by that factor.
C6_DarkScaledByExptimeRatio ==
    /\ (header # None /\ factor # None) =>
          FactorIs(factor, disk[dark_fn].header.EXPTIME, header.EXPTIME)
    /\ (header # None /\ outcome = "ok" /\ ncalls = 1 /\ dark_fn # None
          /\ flat_fn = None /\ bkg_fn = None /\ bp_fn = None
          /\ ~args.replace_nans) =>
          \A p \in Pix :
              Mul(full_image[p], disk[dark_fn].header.EXPTIME) =
                 Sub(Mul(disk[RAW_FILE].data[p], disk[dark_fn].header.EXPTIME),
                     Mul(header.EXPTIME, disk[dark_fn].data[p]))
    /\ (header = None /\ factor # None /\ "science_list" \in DOMAIN args) =>
          /\ FactorIs(factor, disk[args.master_dark_fname].header.EXPTIME,
                      disk[LastFrame].header.EXPTIME)
          /\ (~args.clean_Bad_Pix /\ ~args.replace_nans
                /\ args.background_fname = None) =>
                \A p \in Pix :
                    LET out == disk[CalibName(LastFrame)].data[p]
                        dark == disk[args.master_dark_fname]
                        flat == disk[args.master_flat_fname].data[p]
                    IN  (disk[args.bp_map_fname].data[p] = Zero /\ flat # Zero
                           /\ IsFinite(disk[LastFrame].data[p])) =>
                           Mul(Mul(out, flat), dark.header.EXPTIME) =
                              Sub(Mul(disk[LastFrame].data[p], dark.header.EXPTIME),
                                  Mul(disk[LastFrame].header.EXPTIME, dark.data[p]))
    /\ (header = None /\ factor # None /\ "flat_list" \in DOMAIN args) =>
          FactorIs(factor, disk[args.master_dark_fname].header.EXPTIME,
                   disk[args.flat_list[1]].header.EXPTIME)

\* a dark of another exposure time has been applied: by wirc_data.calibrate
\* with the dark step alone, by calibration.calibrate on a list of two
\* frames, or by masterFlat
C6_Witness ==
    /\ factor # None
    /\ factor # One
    /\ \/ header # None /\ outcome = "ok" /\ flat_fn = None /\ bkg_fn = None
          /\ bp_fn = None /\ ~args.replace_nans
       \/ header = None /\ "science_list" \in DOMAIN args /\ pos = None
          /\ outcome = "ok" /\ Len(args.science_list) = 2
       \/ header = None /\ "flat_list" \in DOMAIN args /\ outcome = "ok"

\* ============================================ properties: the bad pixel map
\* C8: accumulating two masks into a map gives the same map in either order.
C8_AccumulateCommutes ==
    (pos # None /\ pos[1] = "accumulate" /\ args[MAP_AB] = <<>>
        /\ args[MAP_BA] = <<>>) =>
        disk[MAP_AB].data = disk[MAP_BA].data

\* both orders are done, with two masks that overlap and differ, and values
\* that differ
C8_Witness ==
    /\ pos = <<"accumulate", 4>>
    /\ disk[MAP_AB].data = disk[MAP_BA].data
    /\ \E p \in Pix : disk[MAP_AB].data[p] = Num(HOT_VALUE + FLAT_VALUE + HOT_VALUE)
    /\ \E p \in Pix : disk[MAP_AB].data[p] = Num(FLAT_VALUE)

BpMaps == {fn \in DOMAIN disk : fn[3] = "_bp_map"}

\* C9: after masterDark and any number of masterFlat passes that add to the
\* previous map, every value of a bad pixel map is 0, 1, 2 or 3.
C9_MapValuesInRange ==
    \A fn \in BpMaps : \A p \in Pix :
        disk[fn].data[p] \in {Num(v) : v \in 0..(FLAT_VALUE + HOT_VALUE)}

\* m is a median of the values: at most half of them are below it, at most
\* half above, and it is one of them or the mean of two of them
IsMedianOf(m, vals) ==
    /\ 2 * Cardinality({i \in 1..Len(vals) : Less(vals[i], m)}) <= Len(vals)
    /\ 2 * Cardinality({i \in 1..Len(vals) : Less(m, vals[i])}) <= Len(vals)
    /\ \E i, j \in 1..Len(vals) : Add(m, m) = Add(vals[i], vals[j])

\* C10: masterDark writes the per-pixel median of the darks, and a map that is
\* 2 at the pixels of that median that are sigma-outliers or exactly 0 and 0
\* elsewhere; five darks of 100 with one pixel at 0 give a master dark with
\* median 100 and a map that is 2 at that pixel only.
C10_MasterDarkMedianAndMap ==
    (outcome = "ok" /\ "dark_list" \in DOMAIN args) =>
        LET master == disk[MasterDarkName(args.dark_list)].data
            map == disk[BpMapName(args.dark_list)].data
            outlier == SigmaClip(master, args.sig_hot_pix)
        IN  /\ \A p \in Pix :
                  /\ IsMedianOf(master[p], [i \in 1..Len(args.dark_list) |->
                                               disk[args.dark_list[i]].data[p]])
                  /\ map[p] = IF outlier[p] \/ master[p] = Zero
                              THEN Num(2) ELSE Zero
            /\ (\A i \in 1..Len(args.dark_list) :
                    disk[args.dark_list[i]].data = ScenarioDarks[1]) =>
                  /\ master = ScenarioDarks[1]
                  /\ NanMedian(Flatten(master)) = Num(100)
                  /\ map = [p \in Pix |-> IF p = 1 THEN Num(2) ELSE Zero]

\* the five darks of the scenario have been combined
C10_Witness ==
    /\ outcome = "ok"
    /\ "dark_list" \in DOMAIN args
    /\ Len(args.dark_list) = 5
    /\ disk[BpMapName(args.dark_list)].data =
          [p \in Pix |-> IF p = 1 THEN Num(2) ELSE Zero]

\* ------------------------------------------------------------ cleanBadPix
\* cleanBadPix(redux_science, bad_pixel_map) on any small frame: a pixel is
\* NaN, +inf, negative, zero or positive
CleanValues == {NaN, PInf, Num(-1), Zero, Num(3), Num(5)}

InitClean ==
    \E redux_science \in [Pix -> CleanValues], bad_pixel_map \in [Pix -> BOOLEAN] :
        /\ disk = <<>>
        /\ NoObject
        /\ ncalls = 0
        /\ args = [redux_science |-> redux_science,
                   bad_pixel_map |-> bad_pixel_map]
        /\ outcome = "idle"
        /\ factor = None
        /\ nanmask = None
        /\ pos = <<"cleanBadPix", 0>>
        /\ locals = None

\* lines 311-324: the call returns `cleaned`
CleanCall ==
    /\ pos = <<"cleanBadPix", 0>>
    /\ \E cleaned \in {CleanBadPix(args.redux_science, args.bad_pixel_map, med_fil) :
                          med_fil \in MedianFilter(args.redux_science)} :
          locals' = [cleaned |-> cleaned]
    /\ pos' = None
    /\ outcome' = "ok"
    /\ UNCHANGED <<disk, objVars, ncalls, args, factor, nanmask>>

NextClean == CleanCall

SpecClean == InitClean /\ [][NextClean]_vars

\* ================================================ properties: cleanBadPix
CleanReturned == pos = None /\ outcome = "ok" /\ "redux_science" \in DOMAIN args

\* C11: in the frame that cleanBadPix returns, every pixel that is not flagged
\* in the bad pixel map and whose value is not <= 0 has its input value,
\* whatever the other pixels hold.
C11_GoodPixelsUnchanged ==
    CleanReturned =>
        \A p \in Pix :
            (~args.bad_pixel_map[p] /\ ~Leq(args.redux_science[p], Zero)) =>
                locals.cleaned[p] = args.redux_science[p]

\* ----------------------------------------------- register_and_combine_raw
MaxSources == 2    \* sources in `locations`

SPEC_N(i) == <<"spec", i, "">>
SLITLESS == "slitless"

\* The cutout of source j in frame i is known by its place <<i, j>>: the
\* cutouts are made by coarse_regis.extract_traces, and chi2_shift measures
\* the shift between two of them.  `measured` holds what chi2_shift returns
\* for each cutout against the cutout of the same source in the first frame:
\* (dx, dy).

\* lines 386-433: one row per frame, frame 0 included (np.arange(0, nfiles)),
\* one entry per source; each entry is chi2_shift of the first frame's
\* mosaic of the source and the frame's mosaic
GetOffsetsFrom(first, nfiles, n_sources, measured) ==
    [k \in 1..(nfiles - first + 1) |->
        [j \in 1..n_sources |->
            [reference |-> <<1, j>>, image |-> <<first + k - 1, j>>,
             shift |-> measured[first + k - 1][j]]]]

\* (variant: the first frame is left out, as the docstring has it)
GetRelativeImageOffsets_Skip(nfiles, n_sources, measured) ==
    GetOffsetsFrom(2, nfiles, n_sources, measured)

GetRelativeImageOffsets(nfiles, n_sources, measured) ==
    GetOffsetsFrom(1, nfiles, n_sources, measured)

\* np.where(locations[:,1] == 'slitless')[0], from source j on
RECURSIVE WhereFrom(_, _)
WhereFrom(locations, j) ==
    IF j > Len(locations) THEN <<>>
    ELSE (IF locations[j] = SLITLESS THEN <<j>> ELSE <<>>)
             \o WhereFrom(locations, j + 1)

\* (variant: every source is used)
WhereSlitless_All(locations) == [j \in 1..Len(locations) |-> j]

WhereSlitless(locations) == WhereFrom(locations, 1)

\* np.mean: NaN for an empty selection
Mean(s) == IF s = <<>> THEN NaN ELSE Div(SumOf(s), Num(Len(s)))

DY_CORRECTION == Frac(1, 2)

\* lines 546-549: (dx, dy) of one row of offsets
FrameOffset(row, locations) ==
    LET where_slitless == WhereSlitless(locations)
        n == Len(where_slitless)
    IN  <<Mean([k \in 1..n |-> row[where_slitless[k]].shift[1]]),
          Sub(Mean([k \in 1..n |-> row[where_slitless[k]].shift[2]]),
              DY_CORRECTION)>>

Floor(v) == v[1] \div v[2]
Ceil(v) == -((-v[1]) \div v[2])

\* a shift by whole pixels; what comes from outside the frame is 0 (cval),
\* and the frame is one row, so that any shift in y empties it
ShiftWhole(img, sy, sx) ==
    [p \in Pix |-> IF sy = 0 /\ (p - sx) \in Pix THEN img[p - sx] ELSE Zero]

\* scipy.ndimage.shift(img, [sy, sx], order = 4).  The values of the spline
\* between pixels are outside this model: a shift by a fraction of a pixel
\* gives one of the whole-pixel shifts next to it.  A NaN shift has no
\* defined result: the frame as it is, an empty frame or a frame of NaN.
Shift(img, sy, sx) ==
    IF IsNaN(sy) \/ IsNaN(sx) THEN {img, Const(Zero), Const(NaN)}
    ELSE {ShiftWhole(img, y, x) : y \in {Floor(sy), Ceil(sy)},
                                  x \in {Floor(sx), Ceil(sx)}}

\* np.nansum, np.nanmean over a list of values
NanSum(s) == SumOf(DropNaN(s))
NanMean(s) == Mean(DropNaN(s))

COMBINE_METHODS == {"sum", "median", "mean"}

\* (variant: a name that is not known falls back to the mean)
Reduction_MeanFallback(combine) ==
    IF combine \in COMBINE_METHODS THEN combine ELSE "mean"

\* lines 584-592: the reduction that a value of `combine` selects
Reduction(combine) ==
    IF combine \in COMBINE_METHODS THEN combine ELSE "median"

Reduce(method, s) ==
    IF method = "sum" THEN NanSum(s)
    ELSE IF method = "mean" THEN NanMean(s)
    ELSE NanMedian(s)

Combine(method, spec_stack) ==
    [p \in Pix |-> Reduce(method, [i \in 1..Len(spec_stack) |-> spec_stack[i][p]])]

TXT_REG_HASH == "######"
TXT_REG_FOUND == "register_and_combine_raw: Found relative offsets, reigstered the following images: "
TXT_REG_OFFSET == "{} (dx,dy) = ({}, {})"
TXT_REG_BY == "Combine files by {}"
TXT_REG_TOTAL == "Total files combined: {}"

\* spec_images[-1].rsplit('.',1)[-2] + '_combined.fits' (lines 599, 601)
CombinedName(spec_images) == OutName(spec_images, "_combined")

\* what chi2_shift measures: frame i is displaced by (i - 1) * step, the
\* first frame by nothing; a source behind a slit is measured with a bias
SlitBias == <<Num(1), Num(1)>>
Measured(nfiles, locations, step) ==
    [i \in 1..nfiles |->
        [j \in 1..Len(locations) |->
            LET dx == Mul(Num(i - 1), step[1])
                dy == Mul(Num(i - 1), step[2])
            IN  IF locations[j] = SLITLESS THEN <<dx, dy>>
                ELSE <<Add(dx, SlitBias[1]), Add(dy, SlitBias[2])>>]]

\* lines 461-533: the frames are read into spec_stack (through np.nan_to_num,
\* line 492), the traces are cut out and their offsets measured.  Line 484
\* rebinds `cutouts` to an empty list, whatever the caller passed, and the
\* loop fills it from the frames (lines 519, 521); `measured` is what
\* chi2_shift returns for these.
RegisterRead(a, measured) ==
    /\ pos = None
    /\ outcome = "idle"
    /\ header = None
    /\ a.spec_images # <<>>
    /\ \A i \in 1..Len(a.spec_images) : a.spec_images[i] \in DOMAIN disk
    /\ args' = a
    /\ locals' = [spec_stack |-> [i \in 1..Len(a.spec_images) |->
                                     ReplaceNans(disk[a.spec_images[i]].data)],
                  cutouts |-> measured,
                  spectral_hdulist |-> disk[Last(a.spec_images)],
                  offsets |-> GetRelativeImageOffsets(Len(a.spec_images),
                                                      Len(a.locations), measured),
                  dx_list |-> <<>>,
                  dy_list |-> <<>>]
    /\ pos' = <<"register", 1>>
    /\ UNCHANGED <<disk, objVars, ncalls, outcome, factor, nanmask>>

\* lines 542-581: one frame is registered
RegisterShift ==
    /\ pos # None
    /\ pos[1] = "register"
    /\ pos[2] <= Len(args.spec_images)
    /\ LET i == pos[2]
       IN  IF i > Len(locals.offsets)
           THEN \* offsets[i, ...] of line 548 is out of range
                /\ outcome' = "IndexError"
                /\ pos' = None
                /\ UNCHANGED locals
           ELSE \E d \in {FrameOffset(locals.offsets[i], args.locations)} :
                \E shifted \in Shift(locals.spec_stack[i], Neg(d[2]), Neg(d[1])) :
                    /\ locals' = [locals EXCEPT
                                     !.dx_list = Append(@, d[1]),
                                     !.dy_list = Append(@, d[2]),
                                     !.spec_stack[i] = shifted]
                    /\ IF args.save_each
                       THEN \* line 575 reads `hdu`, a name that is not bound
                            /\ outcome' = "NameError"
                            /\ pos' = None
                       ELSE /\ pos' = <<"register", i + 1>>
                            /\ UNCHANGED outcome
    /\ UNCHANGED <<disk, objVars, ncalls, args, factor, nanmask>>

\* lines 608-618: the history of the combined file
CombinedHeader(hdr, spec_images, dx_list, dy_list, combine) ==
    LET n_images == Len(spec_images)
        RECURSIVE Entries(_, _)
        Entries(h, i) ==
            IF i > n_images - 2 THEN h
            ELSE Entries(AddHistory(h, TXT_REG_OFFSET,
                                    <<spec_images[i + 1], dx_list[i], dy_list[i]>>),
                         i + 1)
        h1 == AddHistory([hdr EXCEPT !.PL_VERS = TXT_VERS], TXT_REG_HASH, None)
        h2 == AddHistory(h1, TXT_REG_FOUND, None)
        h3 == AddHistory(h2, TXT_REG_OFFSET,
                         <<spec_images[1], dx_list[1], dy_list[1]>>)
        h4 == Entries(h3, 1)
        h5 == AddHistory(h4, TXT_REG_BY, <<combine>>)
        h6 == AddHistory(h5, TXT_REG_TOTAL, <<n_images>>)
    IN  [NFILES |-> n_images] @@ AddHistory(h6, TXT_REG_HASH, None)

\* lines 583-625: the stack is combined and the result is written
RegisterCombine ==
    /\ pos # None
    /\ pos[1] = "register"
    /\ pos[2] = Len(args.spec_images) + 1
    /\ \E comb_spec \in {Combine(Reduction(args.combine), locals.spec_stack)} :
          /\ locals' = [comb_spec |-> comb_spec,
                        outname |-> CombinedName(args.spec_images)] @@ locals
          /\ disk' = IF args.save_fits
                     THEN (CombinedName(args.spec_images) :>
                              [data |-> comb_spec,
                               header |-> CombinedHeader(
                                   locals.spectral_hdulist.header,
                                   args.spec_images, locals.dx_list,
                                   locals.dy_list, args.combine)]) @@ disk
                     ELSE disk
    /\ pos' = None
    /\ outcome' = "ok"
    /\ UNCHANGED <<objVars, ncalls, args, factor, nanmask>>

\* the frames of a list: the first may hold a NaN, and every header has a
\* card from before
TXT_BEFORE == "acquired"
SpecFrame(i, first) ==
    [data |-> IF i = 1 THEN first ELSE [p \in Pix |-> Num(i * i + p)],
     header |-> AddHistory(NewHeader(SCI_EXPTIME), TXT_BEFORE, None)]

InitReg ==
    \E n \in 1..MaxFrames,
       first \in {[p \in Pix |-> Num(p + 1)],
                  [p \in Pix |-> IF p = 1 THEN NaN ELSE Num(p + 1)]} :
        /\ disk = [fn \in {SPEC_N(i) : i \in 1..n} |-> SpecFrame(fn[2], first)]
        /\ NoObject
        /\ NoCall

Locations == UNION {[1..n -> {SLITLESS, "1"}] : n \in 1..MaxSources}
Steps == {<<Zero, Zero>>, <<One, Frac(1, 2)>>}

RegArgs ==
    [spec_images : {AllFiles("spec", SPEC_N)}, locations : Locations,
     combine : COMBINE_METHODS \cup {"mode"},
     save_fits : BOOLEAN, save_each : BOOLEAN]

\* the cutouts keyword: not passed, or cutouts in which every frame is
\* displaced by GivenStep against the frame before it
GivenStep == <<Num(2), Num(2)>>
WithCutouts(a, given) ==
    [cutouts |-> IF given THEN Measured(Len(a.spec_images), a.locations, GivenStep)
                 ELSE None] @@ a

\* cutouts are passed in calls that write no file, on displaced frames
NextReg ==
    \/ \E a \in RegArgs, step \in Steps :
          RegisterRead(WithCutouts(a, FALSE),
                       Measured(Len(a.spec_images), a.locations, step))
    \/ \E a \in {r \in RegArgs : ~r.save_fits /\ ~r.save_each} :
          RegisterRead(WithCutouts(a, TRUE),
                       Measured(Len(a.spec_images), a.locations, <<One, Frac(1, 2)>>))
    \/ RegisterShift
    \/ RegisterCombine

SpecReg == InitReg /\ [][NextReg]_vars

\* ================================= properties: register_and_combine_raw
IsRegister == "spec_images" \in DOMAIN args
RegImages == Len(args.spec_images)
RegSources == Len(args.locations)

\* the frame i of the stack as it is read from its file, NaN replaced or not
AsRead(i) == disk[args.spec_images[i]].data
AsStacked(i) == ReplaceNans(AsRead(i))

\* the combined frame has been made
RegCombined == IsRegister /\ "comb_spec" \in DOMAIN locals
\* the combined frame has been written
RegWritten == RegCombined /\ args.save_fits

\* C12: with a combine name that is none of 'sum', 'median' and 'mean' the
\* combination does not fail, and the combined frame is the one that
\* combine = 'median' gives for the same stack: the per-pixel nanmedian.
C12_UnknownMethodIsMedian ==
    [][(IsRegister /\ pos = <<"register", RegImages + 1>>
           /\ args.combine \notin COMBINE_METHODS) =>
          /\ outcome' = "ok"
          /\ locals'.comb_spec = Combine("median", locals.spec_stack)
          /\ args.save_fits =>
                disk'[CombinedName(args.spec_images)].data =
                   Combine("median", locals.spec_stack)]_vars

\* three frames have been combined under an unknown name, and their median
\* is neither their mean nor their sum
C12_Witness ==
    /\ RegWritten
    /\ args.combine \notin COMBINE_METHODS
    /\ RegImages = 3
    /\ locals.comb_spec # Combine("mean", locals.spec_stack)
    /\ locals.comb_spec # Combine("sum", locals.spec_stack)

\* the sum of f over a finite set of sources
RECURSIVE SumOver(_, _)
SumOver(S, f) ==
    IF S = {} THEN Zero
    ELSE LET j == CHOOSE k \in S : TRUE
         IN  Add(f[j], SumOver(S \ {j}, f))

Slitless == {j \in 1..RegSources : args.locations[j] = SLITLESS}

\* C13: the offset of every registered frame is, in x, the mean of the
\* measured dx of the slitless sources and, in y, the mean of their dy minus
\* 0.5; what is measured for the sources behind a slit does not enter; and
\* the frame in the stack is the frame resampled by that offset.
C13_OffsetIsSlitlessMean ==
    (IsRegister /\ locals # None /\ Slitless # {}) =>
        \A i \in 1..Len(locals.dx_list) :
            LET row == locals.offsets[i]
                n == Num(Cardinality(Slitless))
            IN  /\ Mul(locals.dx_list[i], n) =
                      SumOver(Slitless, [j \in Slitless |-> row[j].shift[1]])
                /\ Mul(Add(locals.dy_list[i], Frac(1, 2)), n) =
                      SumOver(Slitless, [j \in Slitless |-> row[j].shift[2]])
                /\ locals.spec_stack[i] \in
                      Shift(AsStacked(i), Neg(locals.dy_list[i]),
                            Neg(locals.dx_list[i]))

\* a frame after the first has been registered from one slitless source,
\* with a source behind a slit that was measured differently
C13_Witness ==
    /\ IsRegister
    /\ locals # None
    /\ Len(locals.dx_list) >= 2
    /\ Cardinality(Slitless) = 1
    /\ RegSources = 2
    /\ locals.dx_list[2] = One
    /\ \E j \in 1..RegSources : locals.offsets[2][j].shift[1] # One

\* C14: when no source is slitless the registration reports a failure: no
\* frame is resampled with the NaN offset, the call does not end as a
\* success and no combined file is written.
C14_NoSlitlessIsFailure ==
    (IsRegister /\ Slitless = {}) =>
        /\ outcome # "ok"
        /\ locals.dx_list = <<>>
        /\ CombinedName(args.spec_images) \notin DOMAIN disk

CombinedHistory == disk[CombinedName(args.spec_images)].header.HISTORY

\* C16: the history of the combined file has, for each of the M frames,
\* exactly one entry that names the frame, and that entry holds the (dx, dy)
\* applied to that frame.
C16_EveryFrameLoggedWithItsOffset ==
    RegWritten =>
        \A i \in 1..RegImages :
            LET cards == {k \in 1..Len(CombinedHistory) :
                             /\ CombinedHistory[k][1] = TXT_REG_OFFSET
                             /\ CombinedHistory[k][2][1] = args.spec_images[i]}
            IN  /\ Cardinality(cards) = 1
                /\ \A k \in cards :
                      CombinedHistory[k][2] =
                         <<args.spec_images[i], locals.dx_list[i], locals.dy_list[i]>>

\* C17: the method named in the history of the combined file is one of the
\* three reductions, and the combined frame is that reduction of the stack.
C17_LoggedMethodIsApplied ==
    RegWritten =>
        \E k \in 1..Len(CombinedHistory) :
            /\ CombinedHistory[k][1] = TXT_REG_BY
            /\ CombinedHistory[k][2][1] \in COMBINE_METHODS
            /\ disk[CombinedName(args.spec_images)].data =
                  Combine(CombinedHistory[k][2][1], locals.spec_stack)


\* ------------------------------------------- every operation, on one disk
\* a file whose header already holds a card from before
Logged(o) == [o EXCEPT !.file.header = AddHistory(@, TXT_BEFORE, None)]

\* science frames, or darks and flats, whose logs are not empty
InitLogged ==
    \E n \in 1..MaxSci :
        /\ \/ disk = Disk({Logged(SciFrame(i, [p \in Pix |-> Num(p + 3)])) :
                              i \in 1..n}
                          \cup {[fn |-> DARK_FILE,
                                 file |-> File(Const(One), SCI_EXPTIME)],
                                EvenFlat,
                                [fn |-> BKG_FILE,
                                 file |-> File(Const(One), SCI_EXPTIME)],
                                [fn |-> BP_FILE,
                                 file |-> File(Const(Zero), SCI_EXPTIME)]})
           \/ disk = Disk({Logged([fn |-> DARK_N(1),
                                   file |-> File(Const(Num(2)), SCI_EXPTIME)])}
                          \cup {Logged([fn |-> FLAT_N(i),
                                        file |-> File(Const(Num(10)), SCI_EXPTIME)]) :
                                   i \in 1..(n + 1)})
        /\ NoObject
        /\ NoCall

\* the object, the darks and flats, the frames to register and the logged
\* frames; the science frames of a list are the logged ones
InitEvery == Init \/ InitMaster \/ InitReg \/ InitLogged
NextEvery == NextAll \/ NextReg
SpecEvery == InitEvery /\ [][NextEvery]_vars

\* ========================================= properties: the history log
IsPrefix(s, t) == Len(s) <= Len(t) /\ \A k \in 1..Len(s) : t[k] = s[k]

\* the files that a step writes
Written == {fn \in DOMAIN disk' : fn \notin DOMAIN disk \/ disk'[fn] # disk[fn]}

\* the header an operation held when it began the log of the file fn: the
\* header of the frame it read, and for a bad pixel map the header of the map
\* it adds to or of the master frame it has just written
HeaderBefore(fn) ==
    IF fn[3] # "_bp_map" THEN disk[SourceOf(fn)].header
    ELSE IF "hotp_map_fname" \in DOMAIN args' /\ args'.hotp_map_fname # None
    THEN disk[args'.hotp_map_fname].header
    ELSE disk'[<<fn[1], fn[2],
                 IF fn[1] = "dark" THEN "_master_dark" ELSE "_master_flat">>].header

\* C18: the history log is append-only. In every step of wirc_data.calibrate
\* the log of the object before the step is a prefix of its log after it, and
\* every file written by calibration.calibrate, masterDark, masterFlat or
\* register_and_combine_raw has a log that begins with the whole log of the
\* frame it was made from, card for card.
C18_HistoryAppendOnly ==
    [][/\ (header # None /\ header' # None) =>
              IsPrefix(header.HISTORY, header'.HISTORY)
       /\ \A fn \in Written :
              IsPrefix(HeaderBefore(fn).HISTORY, disk'[fn].header.HISTORY)]_vars

\* the object has been calibrated in a second call, after a first call that
\* left cards in its log: the cards of the first call are still the first
C18_Witness ==
    /\ header # None
    /\ ncalls = 2
    /\ outcome = "ok"
    /\ \E k \in 2..Len(header.HISTORY) : header.HISTORY[k] = header.HISTORY[1]


\* ================================================= properties: NaN pixels
\* a call that asks for no NaN replacement and no bad pixel handling
NoCleanup(a) ==
    /\ ~a.replace_nans
    /\ IF "clean_bad_pix" \in DOMAIN a
       THEN ~a.clean_bad_pix /\ ~a.mask_bad_pixels
       ELSE ~a.clean_Bad_Pix /\ ~a.mask_bad_pixels

\* every NaN of the frame `before` is a NaN of the frame `after`
KeepsNaN(before, after) == \A p \in Pix : IsNaN(before[p]) => IsNaN(after[p])

\* C19: a NaN becomes a number only in a cleanup step that was asked for.
\* A call of wirc_data.calibrate with no option leaves every NaN of the image
\* where it is; a frame written by calibration.calibrate with no option has a
\* NaN wherever the frame it was made from has one; and the frames that
\* register_and_combine_raw puts in its stack have the NaNs of their files.
C19_NaNOnlyRemovedOnRequest ==
    [][/\ (header # None /\ IsCall /\ NoCleanup(args')) =>
              KeepsNaN(full_image, full_image')
       /\ (pos # None /\ pos[1] = "calibrate" /\ NoCleanup(args)) =>
              \A fn \in Written : KeepsNaN(disk[SourceOf(fn)].data, disk'[fn].data)
       /\ (pos = None /\ pos' = <<"register", 1>>) =>
              \A i \in 1..Len(args'.spec_images) :
                  KeepsNaN(disk[args'.spec_images[i]].data, locals'.spec_stack[i])
      ]_vars


\* ============================================ properties: order of the steps
\* the place of a step in the order dark, flat, background, bad pixels (clean,
\* then mask); 0 for a card that is not the card of a step
StepRank(text) ==
    CASE text = TXT_DARK -> 1
      [] text = TXT_FLAT -> 2
      [] text = TXT_BKG -> 3
      [] text = TXT_CLEAN -> 4
      [] text = TXT_MASK -> 5
      [] OTHER -> 0

\* the cards of `after` that follow the cards of `before` are in step order
NewCardsInOrder(before, after) ==
    \A j, k \in (Len(before) + 1)..Len(after) :
        j < k => StepRank(after[j][1]) < StepRank(after[k][1])

\* calibration.calibrate handles the bad pixels by masking (in every run),
\* cleaning (on request) and masking again (on request).  Is `out` what its
\* steps give for the frame of the file src under the arguments a when they
\* are applied stage by stage: dark, flat, background, bad pixels, NaN
\* replacement?
IsInOrder(src, a, out) ==
    LET bad == AsBool(disk[a.bp_map_fname].data)
        fac == DarkFactor(disk[a.master_dark_fname].header.EXPTIME,
                          disk[src].header.EXPTIME)
        x1 == DivideFlat(SubtractDark(disk[src].data, fac,
                                      disk[a.master_dark_fname].data),
                         disk[a.master_flat_fname].data)
        x2 == IF a.background_fname # None
              THEN [p \in Pix |-> Sub(x1[p], disk[a.background_fname].data[p])]
              ELSE x1
    IN  \E x \in {MaskBadPix(x2, bad)} :
        \E c \in (IF a.clean_Bad_Pix
                  THEN {CleanBadPix(x, bad, med_fil) : med_fil \in MedianFilter(x)}
                  ELSE {x}) :
        \E m \in {IF a.mask_bad_pixels THEN MaskBadPix(c, bad) ELSE c} :
            out = IF a.replace_nans THEN ReplaceNans(m) ELSE m

\* C20: the steps of a calibration run are applied in the order dark, flat,
\* background, bad pixels, NaN replacement, and logged in that order. A call of
\* wirc_data.calibrate adds its cards in step order and sets `calibrated` only
\* in a call that has run to its end; a frame written by calibration.calibrate
\* holds what its steps give when they are applied in that order (no pixel is
\* masked before the background is subtracted), and its new cards are in step
\* order.
C20_StepsInOrder ==
    [][/\ (header # None /\ IsCall) =>
              /\ NewCardsInOrder(header.HISTORY, header'.HISTORY)
              /\ (calibrated' /\ ~calibrated) => outcome' = "ok"
       /\ (pos # None /\ pos[1] = "calibrate") =>
              \A fn \in Written :
                  /\ IsInOrder(SourceOf(fn), args, disk'[fn].data)
                  /\ NewCardsInOrder(disk[SourceOf(fn)].header.HISTORY,
                                     disk'[fn].header.HISTORY)
      ]_vars


\* ===================================== properties: clean and mask together
\* the image of the object as it enters the bad pixel stage (lines 104-161)
BeforeBadPix ==
    LET fac == DarkFactor(disk[dark_fn].header.EXPTIME, header.EXPTIME)
        img1 == IF dark_fn # None
                THEN SubtractDark(full_image, fac, disk[dark_fn].data)
                ELSE full_image
        img2 == IF flat_fn # None THEN DivideFlat(img1, disk[flat_fn].data)
                ELSE img1
        background == IF dark_fn # None
                      THEN SubtractDark(disk[bkg_fn].data, fac, disk[dark_fn].data)
                      ELSE disk[bkg_fn].data
    IN  IF bkg_fn # None THEN SubtractBackground(img2, background) ELSE img2

\* `out` is the mask applied to a cleaned `image`
IsMaskOfCleaned(image, bad, out) ==
    \E x \in {image} :
    \E cleaned \in {CleanBadPix(x, bad, med_fil) : med_fil \in MedianFilter(x)} :
        out = MaskBadPix(cleaned, bad)

\* C21: with a bad pixel map and both clean and mask requested, the image is
\* the mask applied to the cleaned image: a flagged pixel is zero, and an
\* unflagged pixel that is <= 0 holds the value of the median filter.  (No NaN
\* replacement is requested, so that the image is the one the stage leaves.)
C21_MaskOfCleaned ==
    [][/\ (header # None /\ IsCall /\ ~calibrated /\ bp_fn # None
              /\ args'.clean_bad_pix /\ args'.mask_bad_pixels
              /\ ~args'.replace_nans) =>
              IsMaskOfCleaned(BeforeBadPix, AsBool(disk[bp_fn].data), full_image')
       /\ (pos # None /\ pos[1] = "calibrate" /\ args.clean_Bad_Pix
              /\ args.mask_bad_pixels /\ ~args.replace_nans) =>
              \A fn \in Written :
                  LET src == SourceOf(fn)
                      bad == AsBool(disk[args.bp_map_fname].data)
                  IN  IsMaskOfCleaned(
                          ReduceFrame(disk[src].data,
                              DarkFactor(disk[args.master_dark_fname].header.EXPTIME,
                                         disk[src].header.EXPTIME),
                              disk[args.master_dark_fname].data,
                              disk[args.master_flat_fname].data, bad,
                              IF args.background_fname # None
                              THEN disk[args.background_fname].data ELSE None),
                          bad, disk'[fn].data)
      ]_vars


\* ============================================== properties: the master flat
\* the stack of masterFlat when every flat of the list, the first included, is
\* dark-subtracted and divided by its own median
AllNormalized(flat_list, fac, master_dark) ==
    [i \in 1..Len(flat_list) |->
        NormalizeFrame(SubtractDark(disk[flat_list[i]].data, fac, master_dark))]

\* C22: the master flat that masterFlat writes is made from a stack in which
\* every flat, the first one too, has had the scaled master dark subtracted
\* and has been divided by its own median: it is the median of that stack over
\* the frames, divided by the median of its pixels that were not clipped.
C22_EveryFlatDarkSubtracted ==
    [][("flat_list" \in DOMAIN args' /\ ncalls' = ncalls + 1 /\ outcome' = "ok") =>
          \E fac \in {DarkFactor(disk[args'.master_dark_fname].header.EXPTIME,
                                 disk[args'.flat_list[1]].header.EXPTIME)} :
          \E flat \in {MedianCombine(AllNormalized(args'.flat_list, fac,
                                         disk[args'.master_dark_fname].data))} :
          \E bad_px \in {SigmaClip(flat, args'.sig_bad_pix)} :
          \E norm \in {NanMedian(Pick(flat, bad_px, 1))} :
              disk'[MasterFlatName(args'.flat_list)].data =
                  [p \in Pix |-> Div(flat[p], norm)]
      ]_vars


\* C23: in the frame that cleanBadPix returns, every pixel that is flagged in
\* the bad pixel map, and every pixel whose input value is <= 0, holds the
\* value of the window-5 median filter of the input frame at its position.
C23_BadPixelsTakeMedian ==
    CleanReturned =>
        \A p \in Pix :
            (args.bad_pixel_map[p] \/ Leq(args.redux_science[p], Zero)) =>
                locals.cleaned[p] \in MedianChoices(args.redux_science, p)


\* ------------------------------ get_relative_image_offsets, pair by pair
\* The function is run twice, on two arrays of cutouts of one shape.  A cutout
\* is known by the place (x, y) of its trace; the mosaic of a cutout
\* (np.concatenate and median_filter, lines 391-396 and 410-415) holds the
\* trace at that place, and chi2_shift (line 420) returns the displacement of
\* the second mosaic against the first.
CutoutValues == {<<0, 0>>, <<1, 2>>}
HorizStack(cutout) == cutout
Chi2Shift(im0, horiz_stack) ==
    <<Num(horiz_stack[1] - im0[1]), Num(horiz_stack[2] - im0[2])>>

\* (variant: every source is compared with the mosaic of the first source)
ReferenceStack_First(im0_stacks, j) == im0_stacks[1]

\* im0_stacks[j,:,:] of line 420
ReferenceStack(im0_stacks, j) == im0_stacks[j]

\* the two arrays of cutouts, cutouts[i][j] for frame i and source j
InitOff ==
    \E m \in 1..MaxFrames, n \in 1..MaxSources :
    \E first \in {[i \in 1..m |-> [j \in 1..n |-> <<0, 0>>]],
                  [i \in 1..m |-> [j \in 1..n |->
                                      IF (i + j) % 2 = 0 THEN <<1, 2>> ELSE <<0, 0>>]]},
       second \in [1..m -> [1..n -> CutoutValues]] :
        /\ disk = <<>>
        /\ NoObject
        /\ ncalls = 0
        /\ args = [inputs |-> <<first, second>>]
        /\ outcome = "idle"
        /\ factor = None
        /\ nanmask = None
        /\ locals = [returned |-> <<>>]
        /\ pos = None

\* lines 378-400: the mosaics of the first frame
OffsetsBegin ==
    /\ pos = None
    /\ "inputs" \in DOMAIN args
    /\ ncalls < Len(args.inputs)
    /\ ncalls' = ncalls + 1
    /\ LET cutouts == args.inputs[ncalls + 1]
       IN  locals' = [returned |-> locals.returned,
                      cutouts |-> cutouts,
                      im0_stacks |-> [j \in 1..Len(cutouts[1]) |->
                                         HorizStack(cutouts[1][j])],
                      offsets |-> <<>>,
                      img_offset |-> <<>>]
    /\ pos' = <<"offsets", 1, 1>>
    /\ outcome' = "running"
    /\ UNCHANGED <<disk, objVars, args, factor, nanmask>>

\* lines 408-423: one source of one frame; after the last source the row is
\* appended, and after the last frame the offsets are returned (line 433)
OffsetsPair ==
    /\ pos # None
    /\ pos[1] = "offsets"
    /\ LET i == pos[2]
           j == pos[3]
           nfiles == Len(locals.cutouts)
           n_sources == Len(locals.cutouts[1])
           shifted == Chi2Shift(ReferenceStack(locals.im0_stacks, j),
                                HorizStack(locals.cutouts[i][j]))
           img_offset == Append(locals.img_offset, shifted)
       IN  IF j < n_sources
           THEN /\ locals' = [locals EXCEPT !.img_offset = img_offset]
                /\ pos' = <<"offsets", i, j + 1>>
                /\ UNCHANGED outcome
           ELSE IF i < nfiles
           THEN /\ locals' = [locals EXCEPT !.offsets = Append(@, img_offset),
                                            !.img_offset = <<>>]
                /\ pos' = <<"offsets", i + 1, 1>>
                /\ UNCHANGED outcome
           ELSE /\ locals' = [returned |->
                                 Append(locals.returned,
                                        Append(locals.offsets, img_offset))]
                /\ pos' = None
                /\ outcome' = "ok"
    /\ UNCHANGED <<disk, objVars, ncalls, args, factor, nanmask>>

NextOff == OffsetsBegin \/ OffsetsPair

SpecOff == InitOff /\ [][NextOff]_vars

\* =================================== properties: offsets, pair by pair
\* C24: the offset of the pair (frame i, source j) depends only on the cutout
\* of source j in the first frame and the cutout of source j in frame i: when
\* two runs agree on these two cutouts they return the same offset for the
\* pair, whatever the cutouts of the other frames and sources are.
C24_OffsetDependsOnItsPair ==
    (pos = None /\ "returned" \in DOMAIN locals /\ Len(locals.returned) = 2) =>
        \A i \in 1..Len(args.inputs[1]) :
            \A j \in 1..Len(args.inputs[1][1]) :
                (/\ args.inputs[1][1][j] = args.inputs[2][1][j]
                 /\ args.inputs[1][i][j] = args.inputs[2][i][j]) =>
                    locals.returned[1][i][j] = locals.returned[2][i][j]

\* two runs have returned; they agree on the cutouts of a pair after the first
\* frame and on nothing else of that source or that frame, and the offset of
\* the pair is not zero
C24_Witness ==
    /\ pos = None
    /\ "returned" \in DOMAIN locals
    /\ Len(locals.returned) = 2
    /\ Len(args.inputs[1]) = 3
    /\ Len(args.inputs[1][1]) = 2
    /\ args.inputs[1][2][2] = args.inputs[2][2][2]
    /\ args.inputs[1][1][2] = args.inputs[2][1][2]
    /\ args.inputs[1][1][1] # args.inputs[2][1][1]
    /\ args.inputs[1][2][1] # args.inputs[2][2][1]
    /\ args.inputs[1][3][2] # args.inputs[2][3][2]
    /\ locals.returned[1][2][2] # <<Zero, Zero>>
    /\ locals.returned[1][2][2] = locals.returned[2][2][2]


\* ============================== properties: the cutouts keyword
\* C25: when the caller passes cutouts to register_and_combine_raw, the
\* cutouts the function works with are the caller's, none being made from the
\* science frames, and the offsets are the ones measured on the caller's
\* cutouts.
C25_GivenCutoutsAreUsed ==
    (IsRegister /\ locals # None /\ args.cutouts # None) =>
        /\ locals.cutouts = args.cutouts
        /\ \A i \in 1..Len(locals.offsets) : \A j \in 1..RegSources :
              locals.offsets[i][j].shift = args.cutouts[i][j]


\* ================================== wirc_data: saving and loading the object
OBJ_FILE == <<"wirc_object", 1, "">>

\* A FITS header card holds a logical as T or F, and a string between
\* quotes; a value of None is written as a card without a value, which reads
\* back as None.
\* (variant: the logical is written as Python prints it)
LogicalCard_AsPrinted(b) == IF b THEN "True" ELSE "False"

LogicalCard(b) == IF b THEN "T" ELSE "F"
ParseLogical(c) == c = "T"
StringCard(v) == IF v = None THEN <<"undefined">> ELSE <<"string", v>>
ParseString(c) == IF c[1] = "undefined" THEN None ELSE c[2]

\* hdulist.writeto / fits.open of the primary header: the keywords that
\* save_wirc_object sets (lines 245-253) are the ones converted
WriteHeader(hdr) ==
    [hdr EXCEPT !.DARK_FN = StringCard(@), !.FLAT_FN = StringCard(@),
                !.BP_FN = StringCard(@), !.BKG_FN = StringCard(@),
                !.CALBRTED = LogicalCard(@), !.BKG_SUBD = LogicalCard(@)]

ReadHeader(cards) ==
    [cards EXCEPT !.DARK_FN = ParseString(@), !.FLAT_FN = ParseString(@),
                  !.BP_FN = ParseString(@), !.BKG_FN = ParseString(@),
                  !.CALBRTED = ParseLogical(@), !.BKG_SUBD = ParseLogical(@)]

\* hdulist[k] of a saved object: the primary HDU, then its extensions
HDU(file, k) == IF k = 0 THEN [data |-> file.data, header |-> file.header]
                ELSE file.ext[k]

\* lines 237-238: the HDUs of source i (counted from 0)
SourceHDU(i) == (2 * i) + 1
TableHDU(i) == (2 * i) + 2

\* wircpol_source.__init__, lines 611-637
NewSource(source_pos, slit_pos) ==
    [pos |-> source_pos, slit_pos |-> slit_pos, trace_images |-> None,
     trace_spectra |-> None, Q |-> None, U |-> None, P |-> None,
     theta |-> None, lambda_calibrated |-> FALSE,
     polarization_computed |-> FALSE, spectra_extracted |-> FALSE,
     thumbnails_cut_out |-> FALSE]

\* np.array([]): what a column holds when its array is None
EmptyColumn == <<>>

\* make_triplet_table, lines 353-408, for a 3-d array (lines 374-382: the
\* index ex_i is read from the column name) or for None (lines 397-403):
\* three columns and their three lengths; the third length is that of c2
TripletOf3D(array_in, ex_i) ==
    LET c == IF array_in # None
             THEN <<array_in[ex_i + 1][1], array_in[ex_i + 1][2],
                    array_in[ex_i + 1][3]>>
             ELSE <<EmptyColumn, EmptyColumn, EmptyColumn>>
    IN  [columns |-> c, length |-> <<Len(c[1]), Len(c[2]), Len(c[2])>>]

\* make_triplet_table for a 2-d array (lines 365-371) or for None
TripletOf2D(array_in) ==
    LET c == IF array_in # None
             THEN <<array_in[1], array_in[2], array_in[3]>>
             ELSE <<EmptyColumn, EmptyColumn, EmptyColumn>>
    IN  [columns |-> c, length |-> <<Len(c[1]), Len(c[2]), Len(c[2])>>]

\* the maximum of a non-empty sequence of naturals
MaxOf(s) == CHOOSE m \in {s[k] : k \in DOMAIN s} : \A k \in DOMAIN s : s[k] <= m

\* fits.BinTableHDU.from_columns: the table has as many rows as its longest
\* column, and the shorter columns are filled with zeros
PadColumn(col, nrows) == [r \in 1..nrows |-> IF r <= Len(col) THEN col[r] ELSE Zero]

\* lines 297-339: the table HDU of one source, with its TLENG keywords
SourceTable(source) ==
    LET triplets == <<TripletOf3D(source.trace_spectra, 0),
                      TripletOf3D(source.trace_spectra, 1),
                      TripletOf3D(source.trace_spectra, 2),
                      TripletOf3D(source.trace_spectra, 3),
                      TripletOf2D(source.Q), TripletOf2D(source.U),
                      TripletOf2D(source.P), TripletOf2D(source.theta)>>
        column_list == [c \in 1..24 |->
                           triplets[((c - 1) \div 3) + 1].columns[((c - 1) % 3) + 1]]
        length_list == [c \in 1..24 |->
                           triplets[((c - 1) \div 3) + 1].length[((c - 1) % 3) + 1]]
        nrows == MaxOf([c \in 1..24 |-> Len(column_list[c])])
    IN  [data |-> [c \in 1..24 |-> PadColumn(column_list[c], nrows)],
         header |-> [TLENG |-> length_list]]

\* lines 267-286: the image HDU of one source
SourceImage(source) ==
    [data |-> source.trace_images,
     header |-> [XPOS |-> source.pos[1], YPOS |-> source.pos[2],
                 SLIT_LOC |-> source.slit_pos,
                 WL_CBRTD |-> LogicalCard(source.lambda_calibrated),
                 POL_CMPD |-> LogicalCard(source.polarization_computed),
                 SPC_XTRD |-> LogicalCard(source.spectra_extracted),
                 THMB_CUT |-> LogicalCard(source.thumbnails_cut_out)]]

\* lines 245-253: the keywords set in self.header before it is written
SavedHeader ==
    [NSOURCES |-> self_n_sources, DARK_FN |-> dark_fn, FLAT_FN |-> flat_fn,
     BP_FN |-> bp_fn, BKG_FN |-> bkg_fn, CALBRTED |-> calibrated,
     BKG_SUBD |-> bkg_subbed] @@ header

\* line 360, `array_in != None`: None for a source without spectra; for an
\* array numpy compares element by element and `if` cannot decide the result,
\* while numpy before 1.13 compares the array as a whole and gives True
ComparesElementwise(elementwise) ==
    /\ elementwise
    /\ \E i \in 1..self_n_sources :
          \/ source_list[i].trace_spectra # None
          \/ source_list[i].Q # None

\* save_wirc_object(wirc_object_filename), lines 231-349
SaveWircObject ==
    /\ header # None
    /\ self_n_sources <= Len(source_list)
    /\ args' = [wirc_object_filename |-> OBJ_FILE]
    /\ header' = SavedHeader
    /\ \E elementwise \in BOOLEAN :
          IF ComparesElementwise(elementwise)
          THEN /\ outcome' = "ValueError"
               /\ UNCHANGED disk
          ELSE /\ outcome' = "saved"
               /\ disk' = [fn \in DOMAIN disk \cup {OBJ_FILE} |->
                    IF fn = OBJ_FILE
                    THEN [data |-> full_image,
                          header |-> WriteHeader(SavedHeader),
                          ext |-> [k \in 1..(2 * self_n_sources) |->
                                     IF k % 2 = 1
                                     THEN SourceImage(source_list[(k + 1) \div 2])
                                     ELSE SourceTable(source_list[k \div 2])]]
                    ELSE disk[fn]]
    /\ UNCHANGED <<full_image, calibrated, bkg_subbed, dark_fn, flat_fn, bkg_fn,
                   bp_fn, self_n_sources, source_list, ncalls, factor, nanmask,
                   pos, locals>>


\* table_columns_to_array, line 417/425: column c (counted from 0) of the
\* table without its padding
FieldOf(table_in, prihdr, c) == SubSeq(table_in[c + 1], 1, prihdr.TLENG[c + 1])

\* table_columns_to_array(table_in, prihdr, cil), lines 410-440, for three
\* columns (lines 413-420)
TableColumnsToArray3(table_in, prihdr, cil) ==
    <<FieldOf(table_in, prihdr, cil[1]), FieldOf(table_in, prihdr, cil[2]),
      FieldOf(table_in, prihdr, cil[3])>>

\* and for twelve columns (lines 422-434): line 434 stacks
\* (array_a, array_b, array_c, array_c)
TableColumnsToArray12(table_in, prihdr, cil) ==
    LET array_a == TableColumnsToArray3(table_in, prihdr, SubSeq(cil, 1, 3))
        array_b == TableColumnsToArray3(table_in, prihdr, SubSeq(cil, 4, 6))
        array_c == TableColumnsToArray3(table_in, prihdr, SubSeq(cil, 7, 9))
        array_d == TableColumnsToArray3(table_in, prihdr, SubSeq(cil, 10, 12))
    IN  <<array_a, array_b, array_c, array_c>>

\* load_wirc_object, lines 477-532: source i (counted from 0) of the file
LoadedSource(file, i) ==
    LET image_hdu == HDU(file, SourceHDU(i))
        big_table == HDU(file, TableHDU(i)).data
        prihdr == HDU(file, TableHDU(i)).header
    IN  [NewSource(<<image_hdu.header.XPOS, image_hdu.header.YPOS>>,
                   image_hdu.header.SLIT_LOC)
            EXCEPT !.trace_images = image_hdu.data,
                   !.trace_spectra =
                       TableColumnsToArray12(big_table, prihdr,
                           <<0, 1, 2, 3, 4, 5, 6, 7, 8, 9, 10, 11>>),
                   !.Q = TableColumnsToArray3(big_table, prihdr, <<12, 13, 14>>),
                   !.U = TableColumnsToArray3(big_table, prihdr, <<15, 16, 17>>),
                   !.P = TableColumnsToArray3(big_table, prihdr, <<18, 19, 20>>),
                   !.theta = TableColumnsToArray3(big_table, prihdr, <<21, 22, 23>>),
                   !.lambda_calibrated = ParseLogical(image_hdu.header.WL_CBRTD),
                   !.polarization_computed = ParseLogical(image_hdu.header.POL_CMPD),
                   !.spectra_extracted = ParseLogical(image_hdu.header.SPC_XTRD),
                   !.thumbnails_cut_out = ParseLogical(image_hdu.header.THMB_CUT)]

\* load_wirc_object(wirc_object_filename), lines 444-532
LoadWircObject ==
    /\ OBJ_FILE \in DOMAIN disk
    /\ LET file == disk[OBJ_FILE]
           hdr == ReadHeader(file.header)
       IN  /\ full_image' = file.data
           /\ header' = hdr
           /\ dark_fn' = hdr.DARK_FN
           /\ flat_fn' = hdr.FLAT_FN
           /\ bp_fn' = hdr.BP_FN
           /\ bkg_fn' = hdr.BKG_FN
           /\ calibrated' = hdr.CALBRTED
           /\ bkg_subbed' = hdr.BKG_SUBD
           /\ self_n_sources' = hdr.NSOURCES
           /\ source_list' = [i \in 1..hdr.NSOURCES |-> LoadedSource(file, i - 1)]
    /\ args' = [wirc_object_filename |-> OBJ_FILE]
    /\ outcome' = "loaded"
    /\ UNCHANGED <<disk, ncalls, factor, nanmask, pos, locals>>

\* sub_background_image(scale_itime), lines 202-228: line 213 reads the names
\* `f` and `background_fname`, which the module does not define
SubBackgroundImage(scale_itime) ==
    /\ header # None
    /\ args' = [scale_itime |-> scale_itime]
    /\ outcome' = IF bkg_fn # None THEN "NameError"
                  ELSE "Background filename not set"
    /\ UNCHANGED <<disk, objVars, ncalls, factor, nanmask, pos, locals>>

\* ---------------------------------------------- the sources of the object
MIDDLE_SLIT == <<1063, 1027>>

\* find_sources(direct_image_fn = None), lines 566-573
FindSources ==
    /\ header # None
    /\ Len(source_list) < MaxSources
    /\ source_list' = Append(source_list, NewSource(MIDDLE_SLIT, "1"))
    /\ self_n_sources' = 1
    /\ header' = [NSOURCES |-> 1] @@ header
    /\ args' = [direct_image_fn |-> None]
    /\ outcome' = "ok"
    /\ UNCHANGED <<disk, full_image, calibrated, bkg_subbed, dark_fn, flat_fn,
                   bkg_fn, bp_fn, ncalls, factor, nanmask, pos, locals>>

\* lines 567-568, the way to add further sources:
\* source_list.append(wircpol_source([y, x], slit_pos, n_sources + 1)) and
\* n_sources += 1
AppendSource(source_pos, slit_pos) ==
    /\ header # None
    /\ self_n_sources = Len(source_list)
    /\ Len(source_list) < MaxSources
    /\ source_list' = Append(source_list, NewSource(source_pos, slit_pos))
    /\ self_n_sources' = self_n_sources + 1
    /\ args' = [pos |-> source_pos, slit_pos |-> slit_pos]
    /\ outcome' = "ok"
    /\ UNCHANGED <<disk, full_image, header, calibrated, bkg_subbed, dark_fn,
                   flat_fn, bkg_fn, bp_fn, ncalls, factor, nanmask, pos, locals>>

\* image_utils.cutout_trace_thumbnails is outside these sources: the four
\* thumbnails of a source are one-pixel boxes, two at each end of the row
Thumbnails(image) == <<image[1], image[NPix], image[NPix], image[1]>>

\* get_source_cutouts, lines 576-582, with wircpol_source.get_cutouts,
\* lines 639-647
GetSourceCutouts ==
    /\ header # None
    /\ self_n_sources <= Len(source_list)
    /\ source_list' = [i \in 1..Len(source_list) |->
                          IF i <= self_n_sources
                          THEN [source_list[i] EXCEPT
                                   !.trace_images = Thumbnails(full_image),
                                   !.thumbnails_cut_out = TRUE]
                          ELSE source_list[i]]
    /\ args' = None
    /\ outcome' = "ok"
    /\ UNCHANGED <<disk, full_image, header, calibrated, bkg_subbed, dark_fn,
                   flat_fn, bkg_fn, bp_fn, self_n_sources, ncalls, factor,
                   nanmask, pos, locals>>

MaxLength == 2     \* pixels of an extracted spectrum

\* wircpol_source.extract_spectra, lines 691-713, given what
\* spec_utils.spec_extraction returned: an array of size [4, 3, m] with the
\* pixel numbers, the spectra and their errors
TraceSpectra(spectra, spectra_std) ==
    [k \in 1..4 |-> <<[x \in 1..Len(spectra[k]) |-> Num(x - 1)],
                      spectra[k], spectra_std[k]>>]

ExtractSpectra(i, spectra, spectra_std) ==
    /\ header # None
    /\ i \in 1..Len(source_list)
    /\ source_list[i].trace_images # None
    /\ source_list' = [source_list EXCEPT
                          ![i].trace_spectra = TraceSpectra(spectra, spectra_std),
                          ![i].spectra_extracted = TRUE]
    /\ args' = [source |-> i]
    /\ outcome' = "ok"
    /\ UNCHANGED <<disk, full_image, header, calibrated, bkg_subbed, dark_fn,
                   flat_fn, bkg_fn, bp_fn, self_n_sources, ncalls, factor,
                   nanmask, pos, locals>>


\* ------------------------------------------- the life of a wirc_data object
\* the calibration files that are named but cannot be read
Unreadable == SUBSET {FLAT_FILE, BKG_FILE, BP_FILE}

\* wirc_data(raw_filename, dark_fn, flat_fn, bp_fn, bkg_fn), lines 52-87: the
\* names are stored and no calibration file is opened
InitObj ==
    \E d \in {o \in DarkOptions : o.fn = None \/ o.file.header.EXPTIME = One},
       f \in {NoFile, EvenFlat}, b \in BkgOptions,
       m \in {NoFile, [fn |-> BP_FILE,
                       file |-> File([p \in Pix |-> IF p = 1 THEN One ELSE Zero],
                                     Zero)]},
       gone \in Unreadable :
        LET raw == [p \in Pix |-> Num(p + 1)]
            files == Disk({[fn |-> RAW_FILE, file |-> File(raw, SCI_EXPTIME)],
                           d, f, b, m})
        IN  /\ disk = [fn \in DOMAIN files \ gone |-> files[fn]]
            /\ full_image = raw
            /\ header = [NewHeader(SCI_EXPTIME) EXCEPT !.RAW_FN = RAW_FILE]
            /\ calibrated = FALSE
            /\ bkg_subbed = FALSE
            /\ dark_fn = d.fn
            /\ flat_fn = f.fn
            /\ bkg_fn = b.fn
            /\ bp_fn = m.fn
            /\ self_n_sources = 0
            /\ source_list = <<>>
            /\ ncalls = 0
            /\ args = None
            /\ outcome = "constructed"
            /\ factor = None
            /\ nanmask = None
            /\ locals = None
            /\ pos = None

NextObj ==
    \/ \E clean_bad_pix \in BOOLEAN, replace_nans \in BOOLEAN,
          mask_bad_pixels \in BOOLEAN :
           Calibrate(clean_bad_pix, replace_nans, mask_bad_pixels)
    \/ \E scale_itime \in BOOLEAN : SubBackgroundImage(scale_itime)
    \/ SaveWircObject
    \/ LoadWircObject

SpecObj == InitObj /\ [][NextObj]_vars

\* an object without calibration files, and its sources
InitSrc ==
    /\ Init
    /\ full_image = [p \in Pix |-> Num(p + 1)]
    /\ dark_fn = None /\ flat_fn = None /\ bkg_fn = None /\ bp_fn = None

\* what spec_utils.spec_extraction returns for the four traces of a source:
\* one spectrum per trace, each trace with its own flux, or the four alike
Extractions ==
    {[spectra |-> [k \in 1..4 |-> [x \in 1..MaxLength |-> Num(k + x)]],
      spectra_std |-> [k \in 1..4 |-> [x \in 1..MaxLength |-> One]]],
     [spectra |-> [k \in 1..4 |-> <<Num(5)>>],
      spectra_std |-> [k \in 1..4 |-> <<One>>]]}

NextSrc ==
    \/ FindSources
    \/ AppendSource(<<200, 100>>, SLITLESS)
    \/ GetSourceCutouts
    \/ \E i \in 1..MaxSources, e \in Extractions :
           ExtractSpectra(i, e.spectra, e.spectra_std)
    \/ SaveWircObject
    \/ LoadWircObject

SpecSrc == InitSrc /\ [][NextSrc]_vars


\* ============================================ properties: the object's life
\* the HISTORY cards of a header that were written with the given text
CardsOf(hdr, text) == {k \in 1..Len(hdr.HISTORY) : hdr.HISTORY[k][1] = text}

\* C26: over any sequence of calibrate calls on one frame, calls that abort
\* because a calibration file cannot be read included, the master dark is
\* subtracted at most once and the flat is divided at most once (each
\* application writes its HISTORY card), and a call that aborts leaves the
\* pixel data and the history as they were before the call.
C26_AbortedCallChangesNothing ==
    [][IsCall =>
          /\ outcome' = "FileNotFoundError" =>
                /\ full_image' = full_image
                /\ header'.HISTORY = header.HISTORY
          /\ Cardinality(CardsOf(header', TXT_DARK)) <= 1
          /\ Cardinality(CardsOf(header', TXT_FLAT)) <= 1]_vars


\* C27: with a bad pixel map and neither cleaning nor masking requested,
\* calibrate completes normally: the bad pixel stage leaves the pixel data as
\* it received them (NaN replacement aside, when that is requested) and the
\* frame ends with the calibrated flag set.
C27_NoCleaningCompletes ==
    [][(IsCall /\ ~calibrated /\ bp_fn # None
           /\ ~args'.clean_bad_pix /\ ~args'.mask_bad_pixels) =>
          /\ outcome' = "ok"
          /\ calibrated'
          /\ full_image' = IF args'.replace_nans THEN ReplaceNans(BeforeBadPix)
                           ELSE BeforeBadPix]_vars


\* C28: after any sequence of calibrate and sub_background_image calls (and
\* of saving and loading), bkg_subbed is true exactly when a background frame
\* has been subtracted from the pixel data, which calibrate records with its
\* HISTORY card, and no background is subtracted twice.
C28_FlagTellsBackgroundSubtracted ==
    /\ bkg_subbed <=> CardsOf(header, TXT_BKG) # {}
    /\ Cardinality(CardsOf(header, TXT_BKG)) <= 1


\* C29: a frame that was calibrated, saved with save_wirc_object and reloaded
\* with load_wirc_object has its calibrated flag set and the calibration file
\* names it was saved with, and a calibrate call on the reloaded object is a
\* no-op: the pixel data and the header stay as loaded, so that neither the
\* dark nor the flat is applied a second time.
C29_ReloadKeepsCalibration ==
    [][/\ (outcome = "saved" /\ calibrated /\ outcome' = "loaded") =>
              /\ calibrated'
              /\ <<dark_fn', flat_fn', bkg_fn', bp_fn'>> =
                     <<dark_fn, flat_fn, bkg_fn, bp_fn>>
       /\ (outcome = "loaded" /\ IsCall
              /\ disk[OBJ_FILE].header.CALBRTED = LogicalCard(TRUE)) =>
              /\ outcome' = "Data already calibrated"
              /\ UNCHANGED <<full_image, header, calibrated>>]_vars

\* a calibrated frame, with its dark and its flat applied once, has been
\* saved and reloaded, and a further calibrate call can be made on it
C29_Witness ==
    /\ outcome = "loaded"
    /\ calibrated
    /\ dark_fn = DARK_FILE /\ flat_fn = FLAT_FILE
    /\ Cardinality(CardsOf(header, TXT_DARK)) = 1
    /\ Cardinality(CardsOf(header, TXT_FLAT)) = 1
    /\ ncalls < MaxCalls


\* ================================================ properties: the round trip
\* C30: save_wirc_object followed by load_wirc_object is a round trip for
\* every source i (counted from 0): its image block is HDU 2i+1 of the file
\* and its table block HDU 2i+2, and the reloaded source has the position, the
\* slit location, the status flags and the thumbnails of the saved one, and
\* its four trace spectra: reloaded trace k is saved trace k, k in 0..3.
C30_SourcesRoundTrip ==
    [][(outcome = "saved" /\ outcome' = "loaded") =>
          /\ self_n_sources' = self_n_sources
          /\ Len(source_list') = self_n_sources
          /\ \A i \in 0..(self_n_sources - 1) :
                LET saved == source_list[i + 1]
                    reloaded == source_list'[i + 1]
                IN  /\ HDU(disk[OBJ_FILE], (2 * i) + 1) = SourceImage(saved)
                    /\ HDU(disk[OBJ_FILE], (2 * i) + 2) = SourceTable(saved)
                    /\ reloaded.pos = saved.pos
                    /\ reloaded.slit_pos = saved.slit_pos
                    /\ reloaded.trace_images = saved.trace_images
                    /\ reloaded.lambda_calibrated = saved.lambda_calibrated
                    /\ reloaded.polarization_computed = saved.polarization_computed
                    /\ reloaded.spectra_extracted = saved.spectra_extracted
                    /\ reloaded.thumbnails_cut_out = saved.thumbnails_cut_out
                    /\ saved.trace_spectra # None =>
                          \A k \in 0..3 :
                              reloaded.trace_spectra[k + 1] = saved.trace_spectra[k + 1]
      ]_vars

====
